---- MODULE Spec2Model ----
(***************************************************************************)
(* Model of the firmware transfer of node-zwave-pe653 (src/index.js,       *)
(* src/crc.js): the upload engine uploadFirmware, the in-process device    *)
(* simulator FakeTransport, the XMODEM CRC-16 that frames DATA packets,    *)
(* the CRC-32 of the whole blob, the archive reader readFirmwareArchive,   *)
(* the upload command and the gateway client ZwaveJS2MqttServer.           *)
(*                                                                         *)
(* Byte arrays are sequences; the source indexes from 0, so At(s, i) reads *)
(* s[i] of the source.  A missing reply (null or undefined, both falsy in  *)
(* the engine's test `!reply`) is the value null.                          *)
(***************************************************************************)
EXTENDS Integers, Sequences, FiniteSets, TLC

(***************************************************************************)
(* Bounds.  The source fixes knownFirmwareSize at 116 * 1024 bytes, that   *)
(* is 3712 blocks of 32 bytes; the model keeps the block size and the      *)
(* whole protocol and transfers FirmwareBlocks blocks instead.             *)
(***************************************************************************)
FirmwareBlocks == 3
\* number of distinct byte patterns the input blobs are drawn from
Patterns == 6
\* an arbitrary transport draws the seq of its replies from
\* 0..FirmwareBlocks + ExtraSeq
ExtraSeq == 2
\* number of packets or replies a lossy link may lose in one run
MaxFaults == 4
\* number of lines of an archive
MaxLines == 5
\* length of the byte sequences the checksums are folded over
CrcLength == 3
\* number of further messages the broker delivers on the result topics in
\* one run
MaxExtra == 2

(***************************************************************************)
(* Program constants, src/index.js:218-225.                                *)
(***************************************************************************)
packetStart == 0
packetData == 2
packetDataRequest == 3
packetDone == 6
packetCRCError == 7
commandFirmwareTransfer == 42
maxTimeouts == 5
knownFirmwareSize == FirmwareBlocks * 32
\* the value the source gives knownFirmwareSize
sourceFirmwareSize == 116 * 1024

null == <<-1>>

At(s, i) == s[i + 1]

Min(a, b) == IF a < b THEN a ELSE b

\* Array.prototype.subarray / slice: the elements s[from .. to-1]
subarray(s, from, to) == [i \in 1..(to - from) |-> s[from + i]]

(***************************************************************************)
(* src/crc.js: the JavaScript operator ^ on non-negative integers, four    *)
(* bits at a time.                                                         *)
(***************************************************************************)
RECURSIVE XorBits(_, _)
XorBits(a, b) ==
    IF a = 0 THEN b
    ELSE IF b = 0 THEN a
    ELSE (((a % 2) + (b % 2)) % 2) + 2 * XorBits(a \div 2, b \div 2)

XorNibble == [a \in 0..15 |-> [b \in 0..15 |-> XorBits(a, b)]]

RECURSIVE BitXor(_, _)
BitXor(a, b) ==
    IF a = 0 THEN b
    ELSE IF b = 0 THEN a
    ELSE XorNibble[a % 16][b % 16] + 16 * BitXor(a \div 16, b \div 16)

\* variant: the polynomial 0x8005 of CRC-16/ARC in place of 0x1021
crc16reduce_polynomial8005(crc16) ==
    IF (crc16 \div 65536) % 2 = 1
    THEN BitXor(crc16, 32773) % 65536
    ELSE crc16

\* if (crc16 & 0x10000) crc16 = (crc16 ^ 0x1021) & 0xffff
crc16reduce(crc16) ==
    IF (crc16 \div 65536) % 2 = 1
    THEN BitXor(crc16, 4129) % 65536
    ELSE crc16

\* one turn of the loop of crc16update: crc16 <<= 1; if ...
crc16shift(crc16) == crc16reduce(crc16 * 2)

RECURSIVE crc16loop(_, _)
crc16loop(crc16, i) ==
    IF i = 0 THEN crc16 ELSE crc16shift(crc16loop(crc16, i - 1))

crc16update(crc16, byte) == crc16loop(BitXor(crc16, byte * 256), 8)

\* let check = 0; for (i = from; i < to; i++) check = crc16update(check, s[i])
\* (the register is never negative; the test makes the evaluation strict)
RECURSIVE crc16fold(_, _, _)
crc16fold(s, n, crc16) ==
    IF n > Len(s) \/ crc16 < 0 THEN crc16
    ELSE crc16fold(s, n + 1, crc16update(crc16, s[n]))

crc16of(s) == crc16fold(s, 1, 0)

(***************************************************************************)
(* src/crc.js: the operators & and | on non-negative integers.             *)
(***************************************************************************)
RECURSIVE AndBits(_, _)
AndBits(a, b) ==
    IF a = 0 \/ b = 0 THEN 0
    ELSE ((a % 2) * (b % 2)) + 2 * AndBits(a \div 2, b \div 2)

BitAnd(a, b) == AndBits(a, b)

\* a | b = (a ^ b) + (a & b)
BitOr(a, b) == BitXor(a, b) + BitAnd(a, b)

reverseBits8(x) ==
    LET x1 == BitOr(BitAnd(x * 16, 240), BitAnd(x \div 16, 15))
        x2 == BitOr(BitAnd(x1 * 4, 204), BitAnd(x1 \div 4, 51))
    IN BitOr(BitAnd(x2 * 2, 170), BitAnd(x2 \div 2, 85))

(***************************************************************************)
(* A 32-bit register is kept as its four bytes, most significant first.    *)
(* A JavaScript number n in -2^31 .. 2^32 - 1 is kept as the pair <<q, r>> *)
(* with n = q * 65536 + r and 0 <= r < 65536, so that two numbers are      *)
(* equal exactly when their pairs are.                                     *)
(***************************************************************************)
\* x >>> 0: the register read as an unsigned number
Unsigned(w) == <<w[1] * 256 + w[2], w[3] * 256 + w[4]>>

\* the result of ^, & or |: the register read as a signed 32-bit number
Signed(w) ==
    <<w[1] * 256 + w[2] - (IF w[1] >= 128 THEN 65536 ELSE 0),
      w[3] * 256 + w[4]>>

WordXor(v, w) == [i \in 1..4 |-> BitXor(v[i], w[i])]

\* r >>> 1
ShiftRight1(w) ==
    [i \in 1..4 |->
        (w[i] \div 2) + (IF i > 1 THEN (w[i - 1] % 2) * 128 ELSE 0)]

\* the first two swaps of reverseBits32 reverse the order of the bytes,
\* the last three are those of reverseBits8 on every byte
reverseBits32(w) == [i \in 1..4 |-> reverseBits8(w[5 - i])]

\* const polynomial = 0xedb88320
polynomial == <<237, 184, 131, 32>>

\* one turn of the inner loop of crc32brTableGen
crc32brBit(r) ==
    IF r[4] % 2 = 1 THEN WordXor(ShiftRight1(r), polynomial)
    ELSE ShiftRight1(r)

RECURSIVE crc32brLoop(_, _)
crc32brLoop(r, j) == IF j = 0 THEN r ELSE crc32brBit(crc32brLoop(r, j - 1))

\* the index reverseBits8(i) at which the entry of i is stored
tableIndex == [i \in 0..255 |-> reverseBits8(i)]

\* table[reverseBits8(i)] = reverseBits32(r)
crc32brTable ==
    [x \in 0..255 |->
        reverseBits32(crc32brLoop(
            <<0, 0, 0, CHOOSE i \in 0..255 : tableIndex[i] = x>>, 8))]

\* crc32 = crc32brTable[x ^ (crc32 >>> 24)] ^ ((crc32 << 8) & 0xffffffff)
crc32step(crc32, x) ==
    WordXor(crc32brTable[BitXor(x, crc32[1])],
            <<crc32[2], crc32[3], crc32[4], 0>>)

\* (the test on the register makes the evaluation strict)
RECURSIVE crc32fold(_, _, _)
crc32fold(buf, n, crc32) ==
    IF n > Len(buf) \/ Len(crc32) # 4 THEN crc32
    ELSE crc32fold(buf, n + 1, crc32step(crc32, buf[n]))

\* the initial value 0xffffffff is returned as it is, a positive number;
\* every later value is the result of ^, a signed 32-bit number
crc32firmware(buf) ==
    IF Len(buf) = 0 THEN Unsigned(<<255, 255, 255, 255>>)
    ELSE Signed(crc32fold(buf, 1, <<255, 255, 255, 255>>))

(***************************************************************************)
(* src/index.js:22-42 (blobs of at least four bytes).                      *)
(***************************************************************************)
actualFirmwareCRC(b) == crc32firmware(subarray(b, 0, Len(b) - 4))

expectedFirmwareCRC(b) ==
    Unsigned(<<At(b, Len(b) - 4), At(b, Len(b) - 3),
               At(b, Len(b) - 2), At(b, Len(b) - 1)>>)

\* variant: the comparison that the source keeps under `if (false)`
checkFirmwareCRC_compared(b) == actualFirmwareCRC(b) = expectedFirmwareCRC(b)

\* the comparison is under `if (false)`: true for every blob
checkFirmwareCRC(b) == TRUE

(***************************************************************************)
(* readFirmwareArchive, src/index.js:56-178.  A line is the sequence of    *)
(* its characters.  The value of parseInt is a record: nan tells whether   *)
(* it is NaN, n is the number otherwise.                                   *)
(***************************************************************************)
\* undefined and null where a byte array, a string or an object is expected
undefined == <<-2>>
undefinedText == <<"undefined">>
nullText == <<"null">>
undefinedObject == [undefined |-> TRUE]
nullObject == [null |-> TRUE]

NaN == [nan |-> TRUE, n |-> 0]
Number(n) == [nan |-> FALSE, n |-> n]

upperDigits ==
    <<"0", "1", "2", "3", "4", "5", "6", "7", "8", "9",
      "A", "B", "C", "D", "E", "F">>
lowerDigits ==
    <<"0", "1", "2", "3", "4", "5", "6", "7", "8", "9",
      "a", "b", "c", "d", "e", "f">>

\* the value of a character as a digit of radix 16, -1 if it is none
digitValue(c) ==
    IF \E i \in 1..16 : upperDigits[i] = c
    THEN (CHOOSE i \in 1..16 : upperDigits[i] = c) - 1
    ELSE IF \E i \in 1..16 : lowerDigits[i] = c
    THEN (CHOOSE i \in 1..16 : lowerDigits[i] = c) - 1
    ELSE -1

isWhiteSpace(c) == c \in {" ", "\t"}

RECURSIVE trimStart(_)
trimStart(s) ==
    IF s # <<>> /\ isWhiteSpace(s[1]) THEN trimStart(Tail(s)) ELSE s

stripSign(s) == IF s # <<>> /\ s[1] \in {"-", "+"} THEN Tail(s) ELSE s

stripPrefix(s) ==
    IF Len(s) >= 2 /\ s[1] = "0" /\ s[2] \in {"x", "X"}
    THEN Tail(Tail(s)) ELSE s

\* the longest prefix of s made of digits, read as a number of radix 16;
\* acc is the number read so far, seen tells whether a digit was read
RECURSIVE parseDigits(_, _, _)
parseDigits(s, acc, seen) ==
    IF s # <<>> /\ digitValue(s[1]) >= 0
    THEN parseDigits(Tail(s), acc * 16 + digitValue(s[1]), TRUE)
    ELSE IF seen THEN Number(acc) ELSE NaN

\* parseInt(s, 16): leading white space skipped, an optional sign, an
\* optional 0x, then the longest prefix of hex digits; NaN if there is none
parseInt(s) ==
    IF parseDigits(stripPrefix(stripSign(trimStart(s))), 0, FALSE).nan
    THEN NaN
    ELSE IF trimStart(s)[1] = "-"
    THEN Number(0 - parseDigits(stripPrefix(stripSign(trimStart(s))),
                                0, FALSE).n)
    ELSE parseDigits(stripPrefix(stripSign(trimStart(s))), 0, FALSE)

\* line.substring(from, to), both counted from 0
substring(line, from, to) ==
    [i \in 1..(Min(to, Len(line)) - Min(from, Len(line))) |-> line[from + i]]

\* the sum `checksum += byte`: NaN as soon as one term is NaN
plus(a, b) == IF a.nan \/ b.nan THEN NaN ELSE Number(a.n + b.n)

\* a number stored in a Uint8Array: NaN is stored as 0, the others modulo 256
toUint8(v) == IF v.nan THEN 0 ELSE v.n % 256

\* `checksum &= 255`: NaN is converted to 0 by the bit operation
and255(v) == IF v.nan THEN 0 ELSE v.n % 256

\* line.split('='): the pieces between the '=' characters
RECURSIVE splitFrom(_, _, _)
splitFrom(line, i, piece) ==
    IF i > Len(line) THEN <<piece>>
    ELSE IF line[i] = "=" THEN <<piece>> \o splitFrom(line, i + 1, <<>>)
    ELSE splitFrom(line, i + 1, Append(piece, line[i]))

split(line) == splitFrom(line, 1, <<>>)

\* const maxBlobLength = 128 * 1024 in the source, 8 KiB above the size of
\* the firmware; the model keeps one block of 32 bytes above it
maxBlobLength == knownFirmwareSize + 32

\* the records of a blob carry 16 bytes of data each
dataRecordLength == 16

unknown == <<"u", "n", "k", "n", "o", "w", "n">>

\* the upload command before its first statement; exit is the code the
\* process ended with, -1 while it runs; transport is the transport the
\* command has built for uploadFirmware, "none" before it has
commandStart ==
    [pc |-> "readArchive",
     archive |-> undefinedObject,
     nodeInfo |-> undefinedObject,
     productId |-> undefinedText,
     product |-> undefinedObject,
     answer |-> "",
     transport |-> "none",
     exit |-> -1]

\* the locals of readFirmwareArchive before the first line; error is the
\* message of the Error thrown from the line handler, <<>> while none was
readerStart ==
    [archive |-> [version |-> unknown, products |-> <<>>],
     productId |-> undefinedText,
     blob |-> undefined,
     extendedSegmentAddress |-> 0,
     maxAddress |-> 0,
     error |-> <<>>]

(***************************************************************************)
(* Inputs: the blob handed to uploadFirmware.                              *)
(***************************************************************************)
BlobOf(len, p) == [i \in 1..len |-> ((i - 1) * (2 * p + 1) + 17 * p) % 256]

BlobLengths ==
    {knownFirmwareSize, 0, knownFirmwareSize - 1, knownFirmwareSize + 32}

Blobs ==
    {BlobOf(knownFirmwareSize, p) : p \in 1..Patterns}
        \cup {BlobOf(len, 1) : len \in BlobLengths}

VARIABLES
    blob,           \* uploadFirmware: the blob argument
    pc,             \* uploadFirmware: "start", "send", "resume", "returned"
    currentSeq,     \* uploadFirmware: let currentSeq
    currentPacket,  \* uploadFirmware: let currentPacket
    timeouts,       \* uploadFirmware: let timeouts
    done,           \* uploadFirmware: let done
    result,         \* uploadFirmware: "pending", "true", "false"
    log,            \* uploadFirmware: the console message of the return taken
    reply,          \* the value the awaited sendAndReceive resolved to
    simState,       \* FakeTransport._state
    simNextSeq,     \* FakeTransport._nextSeq
    simBlob,        \* FakeTransport._blob
    sent,           \* history: the packets handed to transport.sendAndReceive,
                    \*          a packet sent again right away listed once
    repeats,        \* history: how many times in a row the last packet of
                    \*          sent went out with no reply in between
    accepted,       \* history: seq of the DATA_REQUESTs the engine accepted
    simData,        \* history: seq of the DATA packets the simulator stored
    received,       \* history: the packet _handlePacket was last called
                    \*          with
    net,            \* history: what the link between engine and simulator
                    \*          lost: replies dropped, packets lost, whether
                    \*          a call went through, a loss after such a call
    reader,         \* readFirmwareArchive: archive, productId, blob,
                    \*          extendedSegmentAddress, maxAddress, and the
                    \*          Error thrown
    lastLine,       \* history: the line the handler was last called with
    lineNo,         \* history: number of lines handled so far
    writes,         \* history: start address and bytes of the data records
                    \*          taken since the open blob was allocated
    command,        \* the upload command: where it stands (pc), its
                    \*          archive, nodeInfo, productId, product,
                    \*          answer and transport, and the exit code of
                    \*          the process
    crcRun,         \* a checksum under way: the bytes buf, the number n of
                    \*          bytes folded in, the registers crc16 of
                    \*          crc16update and crc32 of crc32firmware
    server          \* ZwaveJS2MqttServer: where its call _sendCommand
                    \*          or _driverFunction stands (pc), whether
                    \*          _sendCommandResolve and
                    \*          _driverFunctionResolve are set, the node
                    \*          getNodeInfo returned (nodeInfo),
                    \*          the number of further messages delivered
                    \*          (extra) and of messages the handler let
                    \*          pass (dropped),
                    \*          the response the gateway has published
                    \*          and the broker has not dispatched yet; and
                    \*          history: the response of the gateway to the
                    \*          call, whether it was dispatched, the
                    \*          outcomes the call yielded

vars == <<blob, pc, currentSeq, currentPacket, timeouts, done, result, log,
          reply, simState, simNextSeq, simBlob, sent, repeats, accepted,
          simData, received, net, reader, lastLine, lineNo, writes, command,
          crcRun, server>>

engineVars == <<currentSeq, currentPacket, timeouts, done, result, log>>
simVars == <<simState, simNextSeq, simBlob, simData, received>>
readerVars == <<reader, lastLine, lineNo, writes>>
\* what a run of uploadFirmware leaves alone
otherVars == <<readerVars, command, crcRun, server>>

\* ZwaveJS2MqttServer after connect(), src/index.js:326-364, no call under
\* way; noResponse stands for no message on the way
noResponse == [none |-> TRUE]

serverStart ==
    [pc |-> "idle",
     _sendCommandResolve |-> FALSE,
     published |-> noResponse,
     response |-> noResponse,
     dispatched |-> FALSE,
     outcomes |-> <<>>,
     _driverFunctionResolve |-> FALSE,
     nodeInfo |-> noResponse,
     extra |-> 0,
     dropped |-> 0]

\* the registers before the first byte of buf: `let check = 0` and
\* `let crc32 = 0xffffffff`
crcStart(buf) ==
    [buf |-> buf, n |-> 0, crc16 |-> 0, crc32 |-> <<255, 255, 255, 255>>]

\* everything but the command and the checksum under way
InitRun ==
    /\ blob \in Blobs
    /\ pc = "start"
    /\ currentSeq = -1
    /\ currentPacket = <<commandFirmwareTransfer, packetStart>>
    /\ timeouts = 0
    /\ done = FALSE
    /\ result = "pending"
    /\ log = "none"
    /\ reply = null
    /\ simState = "wait"
    /\ simNextSeq = 0
    /\ simBlob = [i \in 1..knownFirmwareSize |-> 0]
    /\ sent = <<>>
    /\ repeats = 0
    /\ accepted = <<>>
    /\ simData = <<>>
    /\ received = <<>>
    /\ net = [dropped |-> 0, lost |-> 0, delivered |-> FALSE, late |-> FALSE]
    /\ reader = readerStart
    /\ lastLine = <<>>
    /\ lineNo = 0
    /\ writes = <<>>
    /\ server = serverStart

InitProgram == InitRun /\ command = commandStart

Init == InitProgram /\ crcRun = crcStart(<<>>)

(***************************************************************************)
(* uploadFirmware, src/index.js:467-483: the pre-flight checks.            *)
(***************************************************************************)
\* variant: the size test lets shorter blobs through
sizeOk_atMost(b) == Len(b) <= knownFirmwareSize

sizeOk(b) == Len(b) = knownFirmwareSize

Preflight ==
    /\ pc = "start"
    /\ IF ~sizeOk(blob)
       THEN /\ pc' = "returned" /\ result' = "false" /\ log' = "size"
       ELSE IF ~checkFirmwareCRC(blob)
       THEN /\ pc' = "returned" /\ result' = "false" /\ log' = "crc"
       ELSE /\ pc' = "send" /\ result' = result /\ log' = log
    /\ UNCHANGED <<blob, currentSeq, currentPacket, timeouts, done, reply,
                   simVars, sent, repeats, accepted, net, otherVars>>

(***************************************************************************)
(* FakeTransport, src/index.js:240-323.                                    *)
(***************************************************************************)
\* Uint8Array.from(packet): every element is reduced modulo 256
Uint8ArrayFrom(packet) == [i \in 1..Len(packet) |-> packet[i] % 256]

\* variant: the data is written at the start of the array
set_atStart(array, data, offset) ==
    [i \in 1..Len(array) |->
        IF i <= Len(data) THEN data[i] ELSE array[i]]

\* Uint8Array.prototype.set(data, offset)
set(array, data, offset) ==
    [i \in 1..Len(array) |->
        IF i > offset /\ i <= offset + Len(data) THEN data[i - offset]
        ELSE array[i]]

\* variant: the reply of the state done that the source has commented out
stateReply_doneReplies(state, nextSeq) ==
    CASE state = "transfer" ->
            <<commandFirmwareTransfer, packetDataRequest,
              nextSeq % 256, nextSeq \div 256>>
      [] state = "error" ->
            <<commandFirmwareTransfer, packetCRCError,
              nextSeq % 256, nextSeq \div 256>>
      [] state = "done" ->
            <<commandFirmwareTransfer, packetDone,
              nextSeq % 256, nextSeq \div 256>>
      [] OTHER -> null

\* the second switch of _handlePacket: the reply the state calls for
stateReply(state, nextSeq) ==
    CASE state = "transfer" ->
            <<commandFirmwareTransfer, packetDataRequest,
              nextSeq % 256, nextSeq \div 256>>
      [] state = "error" ->
            <<commandFirmwareTransfer, packetCRCError,
              nextSeq % 256, nextSeq \div 256>>
      [] OTHER -> null

\* variant: the packet not taken is answered as the state calls for
dropped_answered(sim) ==
    [sim |-> sim, reply |-> stateReply(sim.state, sim.nextSeq),
     stored |-> FALSE]

\* a return before the second switch: no reply, nothing changed
dropped(sim) == [sim |-> sim, reply |-> null, stored |-> FALSE]

\* a break out of the first switch
handled(sim, stored) ==
    [sim |-> sim, reply |-> stateReply(sim.state, sim.nextSeq),
     stored |-> stored]

\* variant: the payload is stored without the test against the buffer's end
_handleData_noBoundsCheck(sim, packet, seq) ==
    IF sim.state # "transfer" \/ sim.nextSeq # seq \/ Len(packet) < 6
    THEN dropped(sim)
    ELSE LET data == subarray(packet, 4, Len(packet) - 2)
             crc == At(packet, Len(packet) - 2)
                        + 256 * At(packet, Len(packet) - 1)
             check == crc16of(subarray(packet, 0, Len(packet) - 2))
             offset == seq * 32
         IN IF check # crc THEN dropped(sim)
            ELSE handled([sim EXCEPT !.blob = set(sim.blob, data, offset),
                                     !.nextSeq = sim.nextSeq + 1], TRUE)

\* variant: the CRC of the packet is not compared
_handleData_noCrcCheck(sim, packet, seq) ==
    IF sim.state # "transfer" \/ sim.nextSeq # seq \/ Len(packet) < 6
    THEN dropped(sim)
    ELSE LET data == subarray(packet, 4, Len(packet) - 2)
             offset == seq * 32
         IN IF offset + Len(data) > Len(sim.blob)
            THEN handled([sim EXCEPT !.state = "error"], FALSE)
            ELSE handled([sim EXCEPT !.blob = set(sim.blob, data, offset),
                                     !.nextSeq = sim.nextSeq + 1], TRUE)

_handleData(sim, packet, seq) ==
    IF sim.state # "transfer" \/ sim.nextSeq # seq \/ Len(packet) < 6
    THEN dropped(sim)
    ELSE LET data == subarray(packet, 4, Len(packet) - 2)
             crc == At(packet, Len(packet) - 2)
                        + 256 * At(packet, Len(packet) - 1)
             check == crc16of(subarray(packet, 0, Len(packet) - 2))
             offset == seq * 32
         IN IF check # crc THEN dropped(sim)
            ELSE IF offset + Len(data) > Len(sim.blob)
            THEN handled([sim EXCEPT !.state = "error"], FALSE)
            ELSE handled([sim EXCEPT !.blob = set(sim.blob, data, offset),
                                     !.nextSeq = sim.nextSeq + 1], TRUE)

_handleDone(sim, packet, seq) ==
    IF sim.state # "transfer" \/ sim.nextSeq # seq \/ Len(packet) < 4
    THEN dropped(sim)
    ELSE handled([sim EXCEPT !.state =
                     IF checkFirmwareCRC(sim.blob) THEN "done" ELSE "error"],
                 FALSE)

\* variant: START is taken in every state
_handlePacket_restartable(sim, raw) ==
    LET packet == Uint8ArrayFrom(raw)
    IN IF Len(packet) < 2 \/ At(packet, 0) # commandFirmwareTransfer
       THEN dropped(sim)
       ELSE LET type == At(packet, 1)
                seq == IF Len(packet) >= 4
                       THEN At(packet, 2) + 256 * At(packet, 3)
                       ELSE -1
            IN CASE type = packetStart ->
                       handled([sim EXCEPT !.state = "transfer",
                                           !.nextSeq = 0], FALSE)
                 [] type = packetData -> _handleData(sim, packet, seq)
                 [] type = packetDone -> _handleDone(sim, packet, seq)
                 [] OTHER -> handled(sim, FALSE)

_handlePacket(sim, raw) ==
    LET packet == Uint8ArrayFrom(raw)
    IN IF Len(packet) < 2 \/ At(packet, 0) # commandFirmwareTransfer
       THEN dropped(sim)
       ELSE LET type == At(packet, 1)
                seq == IF Len(packet) >= 4
                       THEN At(packet, 2) + 256 * At(packet, 3)
                       ELSE -1
            IN CASE type = packetStart ->
                       IF sim.state # "wait" THEN dropped(sim)
                       ELSE handled([sim EXCEPT !.state = "transfer",
                                                !.nextSeq = 0], FALSE)
                 [] type = packetData -> _handleData(sim, packet, seq)
                 [] type = packetDone -> _handleDone(sim, packet, seq)
                 [] OTHER -> handled(sim, FALSE)

FakeTransport == [state |-> simState, nextSeq |-> simNextSeq, blob |-> simBlob]

\* the call transport.sendAndReceive(currentPacket) as the histories see it
Transmit ==
    /\ pc = "send"
    /\ pc' = "resume"
    /\ sent' = IF sent # <<>> /\ sent[Len(sent)] = currentPacket THEN sent
               ELSE Append(sent, currentPacket)
    /\ repeats' = IF sent # <<>> /\ sent[Len(sent)] = currentPacket
                     /\ reply = null
                  THEN repeats + 1 ELSE 1
    /\ UNCHANGED <<blob, engineVars, accepted, readerVars, command, crcRun>>

\* _handlePacket(packet) applied to the simulator's fields; the reply
\* reaches the engine unless the link drops it
Handled(r, arrives) ==
    /\ reply' = IF arrives THEN r.reply ELSE null
    /\ simState' = r.sim.state
    /\ simNextSeq' = r.sim.nextSeq
    /\ simBlob' = r.sim.blob
    /\ simData' = IF r.stored THEN Append(simData, simNextSeq) ELSE simData

Handle(packet, arrives) ==
    /\ Handled(_handlePacket(FakeTransport, packet), arrives)
    /\ received' = Uint8ArrayFrom(packet)

\* FakeTransport.sendAndReceive, src/index.js:248-256: _handlePacket runs
\* inside the call, the promise resolves to its reply 5 ms later
FakeSendAndReceive ==
    /\ Transmit
    /\ Handle(currentPacket, TRUE)
    /\ net' = [net EXCEPT !.delivered = TRUE]
    /\ UNCHANGED server

(***************************************************************************)
(* uploadFirmware, src/index.js:484-535: one turn of the loop after the    *)
(* awaited reply has arrived.                                              *)
(***************************************************************************)
\* variant: the CRC is appended most significant byte first
pushCrc_bigEndian(packet, crc16) == packet \o <<crc16 \div 256, crc16 % 256>>

\* currentPacket.push(crc16 & 0xff, crc16 >> 8)
pushCrc(packet, crc16) == packet \o <<crc16 % 256, crc16 \div 256>>

\* variant: the payload is taken from offset seq, not seq * 32
dataHead_unscaled(b, seq) ==
    <<commandFirmwareTransfer, packetData, seq % 256, seq \div 256>>
        \o subarray(b, seq, Min(seq + 32, Len(b)))

\* currentPacket = [cmd, packetData, seq & 0xff, seq >> 8].concat(data)
dataHead(b, seq) ==
    <<commandFirmwareTransfer, packetData, seq % 256, seq \div 256>>
        \o subarray(b, seq * 32, Min(seq * 32 + 32, Len(b)))

withCrc(packet) == pushCrc(packet, crc16of(packet))

DataPacket(b, seq) == withCrc(dataHead(b, seq))

DonePacket(seq) ==
    <<commandFirmwareTransfer, packetDone, seq % 256, seq \div 256>>

\* variant: one resend too many
mayResend_offByOne(t) == t <= maxTimeouts

\* variant: one resend too few
mayResend_early(t) == t + 1 < maxTimeouts

\* if (timeouts < maxTimeouts) ... continue
mayResend(t) == t < maxTimeouts

\* variant: a request further ahead is taken too
isExpected_orAhead(seq, cur) == seq >= cur + 1

\* variant: the rule of the protocol comment (src/index.js:201), which
\* also takes seq 0
isExpected_orRestart(seq, cur) == seq = cur + 1 \/ seq = 0

\* if (seq !== currentSeq + 1) continue
isExpected(seq, cur) == seq = cur + 1

\* variant: the offset at the very end of the blob still counts as data
hasData_inclusive(b, seq) == seq * 32 <= Len(b)

\* if (offset < blob.length) ... else ...
hasData(b, seq) == seq * 32 < Len(b)

\* variant: no case for packetCRCError
switchType_noCrcError(type) ==
    CASE type = packetDataRequest -> "dataRequest"
      [] type = packetDone -> "done"
      [] OTHER -> "default"

\* variant: a reply of type DONE is taken for an unknown type
switchType_doneIgnored(type) ==
    CASE type = packetDataRequest -> "dataRequest"
      [] type = packetCRCError -> "crcError"
      [] OTHER -> "default"

\* switch (type)
switchType(type) ==
    CASE type = packetDataRequest -> "dataRequest"
      [] type = packetDone -> "done"
      [] type = packetCRCError -> "crcError"
      [] OTHER -> "default"

\* variant: the seq of a reply is read most significant byte first
replySeq_bigEndian(r) == 256 * At(r, 2) + At(r, 3)

replySeq(r) == At(r, 2) + 256 * At(r, 3)

Continue ==
    /\ pc' = "send"
    /\ UNCHANGED <<currentSeq, currentPacket, done, result, log, accepted>>

Return(value, message) ==
    /\ pc' = "returned"
    /\ result' = value
    /\ log' = message
    /\ UNCHANGED <<currentSeq, currentPacket, done, accepted>>

\* variant: a timeout starts the transfer over
OnTimeout_restart ==
    /\ timeouts' = timeouts + 1
    /\ IF mayResend(timeouts + 1)
       THEN /\ pc' = "send"
            /\ currentSeq' = -1
            /\ currentPacket' = <<commandFirmwareTransfer, packetStart>>
            /\ UNCHANGED <<done, result, log, accepted>>
       ELSE Return("false", IF done THEN "assumed" ELSE "timeout")

\* variant: the missing confirmation is reported as success
OnTimeout_assumeSuccess ==
    /\ timeouts' = timeouts + 1
    /\ IF mayResend(timeouts + 1) THEN Continue
       ELSE IF done THEN Return("true", "assumed")
       ELSE Return("false", "timeout")

OnTimeout ==
    /\ timeouts' = timeouts + 1
    /\ IF mayResend(timeouts + 1) THEN Continue
       ELSE Return("false", IF done THEN "assumed" ELSE "timeout")

OnDataRequest(seq) ==
    IF ~isExpected(seq, currentSeq) THEN Continue
    ELSE /\ currentSeq' = seq
         /\ accepted' = Append(accepted, seq)
         /\ IF hasData(blob, seq)
            THEN /\ currentPacket' = DataPacket(blob, seq)
                 /\ done' = done
            ELSE /\ currentPacket' = DonePacket(seq)
                 /\ done' = TRUE
         /\ pc' = "send"
         /\ UNCHANGED <<result, log>>

OnReply ==
    /\ timeouts' = 0
    /\ IF Len(reply) < 4 THEN Continue
       ELSE IF At(reply, 0) # commandFirmwareTransfer THEN Continue
       ELSE CASE switchType(At(reply, 1)) = "dataRequest" ->
                     OnDataRequest(replySeq(reply))
              [] switchType(At(reply, 1)) = "done" ->
                     Return("true", "success")
              [] switchType(At(reply, 1)) = "crcError" ->
                     Return("false", "crcerror")
              [] OTHER -> Continue

Resume ==
    /\ pc = "resume"
    /\ IF reply = null THEN OnTimeout ELSE OnReply
    /\ UNCHANGED <<blob, reply, simVars, sent, repeats, net, otherVars>>

(***************************************************************************)
(* readFirmwareArchive, src/index.js:71-175: the handler of one line.  An  *)
(* Error thrown from the handler ends the process; the locals stay as they *)
(* were when it was thrown.                                                *)
(***************************************************************************)
throw(r, message) == [r EXCEPT !.error = message]

\* byte = parseInt(line.substring(i * 2 + 1, i * 2 + 3), 16), i from 1 here
byteAt(line, i) == parseInt(substring(line, 2 * i - 1, 2 * i + 1))

recordOf(line) ==
    [i \in 1..((Len(line) - 1) \div 2) |-> toUint8(byteAt(line, i))]

RECURSIVE checksumFrom(_, _, _)
checksumFrom(line, i, checksum) ==
    IF i > (Len(line) - 1) \div 2 THEN checksum
    ELSE checksumFrom(line, i + 1, plus(checksum, byteAt(line, i)))

checksumOf(line) == and255(checksumFrom(line, 1, Number(0)))

\* variant: the buffer starts filled with zeros
newBlob_zeros == [i \in 1..maxBlobLength |-> 0]

\* new Uint8Array(maxBlobLength).fill(0xff)
newBlob == [i \in 1..maxBlobLength |-> 255]

opened(r) ==
    IF r.blob = undefined
    THEN [r EXCEPT !.blob = newBlob,
                   !.extendedSegmentAddress = 0,
                   !.maxAddress = 0]
    ELSE r

\* variant: the end of the record may lie one byte past the buffer
inRange_pastEnd(endAddress) == endAddress <= maxBlobLength + 1

inRange(endAddress) == endAddress <= maxBlobLength

\* case 0, the data record
onData(r, record, dataLength, offset) ==
    IF dataLength # dataRecordLength THEN throw(r, <<"Data record malformed">>)
    ELSE IF ~inRange(r.extendedSegmentAddress * 16 + offset + dataLength)
    THEN throw(r, <<"Data record offset out of range">>)
    ELSE [r EXCEPT
            !.maxAddress =
                IF r.extendedSegmentAddress * 16 + offset + dataLength > @
                THEN r.extendedSegmentAddress * 16 + offset + dataLength
                ELSE @,
            !.blob = set(@, subarray(record, 4, 4 + dataLength),
                         r.extendedSegmentAddress * 16 + offset)]

\* variant: a product that has a blob takes another one
hasBlob_never(product) == FALSE

hasBlob(product) == product.blob # undefined

\* case 1, the EOF record
onEOF(r, dataLength, offset) ==
    IF dataLength # 0 \/ offset # 0 THEN throw(r, <<"EOF record malformed">>)
    ELSE IF hasBlob(r.archive.products[r.productId])
    THEN throw(r, <<"Encountered a second blob for the same product">>)
    ELSE [r EXCEPT
            !.archive.products[r.productId].blob =
                subarray(r.blob, 0, r.maxAddress),
            !.archive.products[r.productId].blobLength = r.maxAddress,
            !.blob = undefined]

\* case 2, the extended segment address record
onSegment(r, record, dataLength, offset) ==
    IF dataLength # 2 \/ offset # 0
    THEN throw(r, <<"Extended segment address record malformed">>)
    ELSE [r EXCEPT !.extendedSegmentAddress = At(record, 4) * 256 + At(record, 5)]

\* variant: the start segment address record (type 3) is skipped
switchRecord_skipType3(r, record, dataLength, offset, recordType) ==
    CASE recordType = 0 -> onData(r, record, dataLength, offset)
      [] recordType = 1 -> onEOF(r, dataLength, offset)
      [] recordType = 2 -> onSegment(r, record, dataLength, offset)
      [] recordType = 3 -> r
      [] OTHER -> throw(r, <<"Unsupported record type", recordType>>)

\* switch (recordType)
switchRecord(r, record, dataLength, offset, recordType) ==
    CASE recordType = 0 -> onData(r, record, dataLength, offset)
      [] recordType = 1 -> onEOF(r, dataLength, offset)
      [] recordType = 2 -> onSegment(r, record, dataLength, offset)
      [] OTHER -> throw(r, <<"Unsupported record type", recordType>>)

\* the record once its blob is open; record[0] of an empty record is
\* undefined and `undefined + 4 + 1` is NaN, unequal to every length
onRecord(r, record) ==
    IF Len(record) = 0 \/ At(record, 0) + 4 + 1 # Len(record)
    THEN throw(r, <<"Record data length is invalid">>)
    ELSE switchRecord(r, record, At(record, 0),
                      At(record, 1) * 256 + At(record, 2), At(record, 3))

checksumOk(line) == checksumOf(line) = 0

\* the branch of a line that starts with ':'
onRecordLine(r, line) ==
    IF Len(line) % 2 # 1
    THEN throw(r, <<"Record does not have an even number of digits">>)
    ELSE IF r.productId = undefinedText
    THEN throw(r, <<"Missing product metadata while decoding blob">>)
    ELSE IF ~checksumOk(line)
    THEN throw(r, <<"Record does not have a zero checksum">>)
    ELSE onRecord(opened(r), recordOf(line))

\* variant: metadata is taken while a blob is open
blobOpen_never(r) == FALSE

blobOpen(r) == r.blob # undefined

\* archive.products[productId] = { name, version, message }
newProduct(s) ==
    [name |-> s[2], version |-> s[3], message |-> s[4],
     blob |-> undefined, blobLength |-> undefined]

\* the branch of every other line
onHeaderLine(r, line) ==
    IF blobOpen(r)
    THEN throw(r, <<"Encountered metadata while decoding a blob">>)
    ELSE IF Len(split(line)) = 4
    THEN [r EXCEPT
            !.productId = split(line)[1],
            !.archive.products =
                (split(line)[1] :> newProduct(split(line))) @@ @]
    ELSE IF r.archive.version = unknown
    THEN [r EXCEPT !.archive.version = line]
    ELSE r

startsWithColon(line) == line # <<>> /\ line[1] = ":"

\* reader.on('line', ...)
onLine(r, line) ==
    IF startsWithColon(line) THEN onRecordLine(r, line)
    ELSE onHeaderLine(r, line)

(***************************************************************************)
(* uploadFirmware against the simulator, as the fake-upload command runs   *)
(* it (src/index.js:586-602).                                              *)
(***************************************************************************)
\* const result = await uploadFirmware(...); if (!result) process.exit(1)
exitCode == IF result = "false" THEN 1 ELSE 0

Next == Preflight \/ FakeSendAndReceive \/ Resume

Spec == Init /\ [][Next]_vars

(***************************************************************************)
(* uploadFirmware against a transport that is free to answer anything, as  *)
(* the gateway transport may (src/index.js:387-395, 455-465): no reply, a  *)
(* reply too short, a foreign command, any packet type, any seq.           *)
(***************************************************************************)
packetUnknown == 9
commandOther == 64

seqReply(type, seq) ==
    <<commandFirmwareTransfer, type, seq % 256, seq \div 256>>

AnyReplies ==
    {null, <<>>, <<commandFirmwareTransfer, packetDataRequest, 0>>,
     <<commandOther, packetDataRequest, 0, 0>>,
     seqReply(packetUnknown, 0), seqReply(packetDone, 0),
     seqReply(packetCRCError, 0)}
        \cup {seqReply(packetDataRequest, q) :
                 q \in 0..(FirmwareBlocks + ExtraSeq)}

AnySendAndReceive ==
    /\ Transmit
    /\ reply' \in AnyReplies
    /\ UNCHANGED <<simVars, net, server>>

NextAny == Preflight \/ AnySendAndReceive \/ Resume

SpecAny == Init /\ [][NextAny]_vars

(***************************************************************************)
(* uploadFirmware against the simulator over a link that loses at most     *)
(* MaxFaults messages: a reply of the simulator dropped after the          *)
(* simulator handled the packet, or a packet lost before it got there.     *)
(* Either way the engine's call resolves to no reply.                      *)
(***************************************************************************)
Fault(kind) ==
    /\ net.dropped + net.lost < MaxFaults
    /\ net' = [net EXCEPT ![kind] = net[kind] + 1,
                          !.late = net.late \/ net.delivered]

DropReply ==
    /\ Transmit
    /\ Handle(currentPacket, FALSE)
    /\ Fault("dropped")
    /\ UNCHANGED server

LosePacket ==
    /\ Transmit
    /\ reply' = null
    /\ Fault("lost")
    /\ UNCHANGED <<simVars, server>>

NextLossy ==
    Preflight \/ FakeSendAndReceive \/ DropReply \/ LosePacket \/ Resume

SpecLossy == Init /\ [][NextLossy]_vars

(***************************************************************************)
(* uploadFirmware as the commands run it, src/index.js:586-602 and         *)
(* 669-671: fake-upload hands it a FakeTransport, upload a                 *)
(* ZwaveJS2MqttTransport, whose replies are the gateway's and may be       *)
(* anything.  The transport is built once and serves every call of the     *)
(* run.  Every call of sendAndReceive resolves and the continuation of a   *)
(* resolved await is run, so a step that can be taken is taken in the end. *)
(* Every step of the run moves pc, and one can be taken wherever pc is not *)
(* "returned": the fairness condition is stated on pc alone.               *)
(***************************************************************************)
InitTerm ==
    /\ InitRun
    /\ crcRun = crcStart(<<>>)
    /\ command \in {[commandStart EXCEPT !.transport = t] :
                       t \in {"FakeTransport", "ZwaveJS2MqttTransport"}}

FakeCall == command.transport = "FakeTransport" /\ FakeSendAndReceive

GatewayCall ==
    command.transport = "ZwaveJS2MqttTransport" /\ AnySendAndReceive

NextTerm == Preflight \/ FakeCall \/ GatewayCall \/ Resume

\* the statement uploadFirmware stands at is run
Advance == pc # "returned" /\ pc' \in {"send", "resume", "returned"}

SpecTerm == InitTerm /\ [][NextTerm]_vars /\ WF_pc(Advance)

(***************************************************************************)
(* Inputs of readFirmwareArchive: the lines of the decrypted archive.      *)
(* A record line is ':' and the hex digits of length, offset (two bytes),  *)
(* type, data and checksum (src/index.js:101-105).                         *)
(***************************************************************************)
hexOf(byte) ==
    <<upperDigits[(byte \div 16) + 1], upperDigits[(byte % 16) + 1]>>

RECURSIVE hexDigits(_)
hexDigits(bytes) ==
    IF bytes = <<>> THEN <<>> ELSE hexOf(Head(bytes)) \o hexDigits(Tail(bytes))

RECURSIVE sumOf(_)
sumOf(bytes) == IF bytes = <<>> THEN 0 ELSE Head(bytes) + sumOf(Tail(bytes))

\* the bytes followed by the checksum that makes their sum 0 modulo 256
framed(bytes) == Append(bytes, (256 - (sumOf(bytes) % 256)) % 256)

recordLine(bytes) == <<":">> \o hexDigits(framed(bytes))

dataBytes(p) == [i \in 1..dataRecordLength |-> (i * (2 * p + 1) + 40 * p) % 256]

dataLine(offset, p) ==
    recordLine(<<dataRecordLength, offset \div 256, offset % 256, 0>>
                   \o dataBytes(p))

eofLine == recordLine(<<0, 0, 0, 1>>)

segmentLine(segment) ==
    recordLine(<<2, 0, 0, 2, segment \div 256, segment % 256>>)

typeLine(recordType) == recordLine(<<0, 0, 0, recordType>>)

headerLine(productId) == productId \o <<"=", "n", "=", "1", "=", "m">>

PE0653 == <<"P", "E", "0", "6", "5", "3">>
PE0953 == <<"P", "E", "0", "9", "5", "3">>

HeaderLines ==
    {headerLine(PE0653), headerLine(PE0953), <<"v", "2">>, <<>>}

DataLines ==
    {dataLine(0, 1), dataLine(8, 2), dataLine(maxBlobLength - 16, 1),
     dataLine(maxBlobLength - 15, 2)}

SegmentLines ==
    {segmentLine(1), segmentLine((maxBlobLength \div 16) - 1),
     segmentLine(maxBlobLength \div 16)}

\* lines the format does not allow: a wrong checksum, an even length, pairs
\* of characters that are no hex bytes, lines too short, wrong lengths and
\* offsets, record types above 2
OddLines ==
    {<<":">> \o hexDigits(<<0, 0, 0, 1, 0>>),
     Append(eofLine, "0"),
     <<":">> \o hexDigits(<<0, 0, 0, 1>>) \o <<"Z", "Z">>,
     <<":">> \o hexDigits(<<0, 0, 0, 1>>) \o <<"-", "1">>,
     <<":">> \o hexDigits(<<0, 0, 0, 1>>) \o <<"1", "z">>,
     <<":">>,
     <<":", "0", "0">>,
     recordLine(<<15, 0, 0, 0>> \o SubSeq(dataBytes(1), 1, 15)),
     recordLine(<<3, 0, 0, 0, 1>>),
     recordLine(<<0, 0, 16, 1>>),
     recordLine(<<2, 0, 16, 2, 0, 0>>),
     typeLine(3), typeLine(4), typeLine(5), typeLine(9)}

Lines == HeaderLines \cup DataLines \cup {eofLine} \cup SegmentLines
             \cup OddLines

(***************************************************************************)
(* readFirmwareArchive fed any archive of at most MaxLines lines.          *)
(***************************************************************************)
\* the data record a line carries into the open blob, if the handler took it
written(r, line, next) ==
    IF /\ next.error = <<>> /\ startsWithColon(line)
       /\ At(recordOf(line), 3) = 0
    THEN <<[start |-> next.extendedSegmentAddress * 16
                          + At(recordOf(line), 1) * 256
                          + At(recordOf(line), 2),
            data |-> subarray(recordOf(line), 4, Len(recordOf(line)) - 1)]>>
    ELSE <<>>

Read(line, next) ==
    /\ reader' = next
    /\ lastLine' = line
    /\ lineNo' = lineNo + 1
    /\ writes' = (IF reader.blob = undefined THEN <<>> ELSE writes)
                     \o written(reader, line, next)

ReadLine ==
    /\ reader.error = <<>>
    /\ lineNo < MaxLines
    /\ \E line \in Lines : Read(line, onLine(reader, line))
    /\ UNCHANGED <<blob, pc, engineVars, reply, simVars, sent, repeats,
                   accepted, net, command, crcRun, server>>

InitArchive == Init /\ blob = BlobOf(knownFirmwareSize, 1)

NextArchive == ReadLine

SpecArchive == InitArchive /\ [][NextArchive]_vars

(***************************************************************************)
(* The upload command, src/index.js:604-675, over the gateway transport,   *)
(* which may answer anything.  Each action is the code between two awaits. *)
(* pc "exited" is process.exit or the end of the action, pc "crashed" an   *)
(* Error nobody catches.                                                   *)
(***************************************************************************)
manufacturerId == 5
productType == 20549

getProductId(nodeInfo) ==
    IF /\ nodeInfo.manufacturerId = manufacturerId
       /\ nodeInfo.productType = productType
    THEN IF nodeInfo.productId = 1619 THEN PE0653
         ELSE IF nodeInfo.productId = 2387 THEN PE0953
         ELSE nullText
    ELSE nullText

\* the line handler over the lines of a file, up to the first Error
RECURSIVE readLines(_, _, _)
readLines(r, lines, i) ==
    IF i > Len(lines) \/ r.error # <<>> THEN r
    ELSE readLines(onLine(r, lines[i]), lines, i + 1)

readFirmwareArchive(file) == readLines(readerStart, file, 1)

\* an archive with a blob of n bytes for one product
fileOf(productId, n) ==
    <<<<"v", "2">>, headerLine(productId)>>
        \o [k \in 1..(n \div dataRecordLength) |->
               dataLine((k - 1) * dataRecordLength, k)]
        \o <<eofLine>>

Files ==
    {fileOf(PE0653, knownFirmwareSize), fileOf(PE0953, knownFirmwareSize),
     fileOf(PE0653, dataRecordLength),
     <<headerLine(PE0653)>>,
     <<typeLine(3)>>}

nodeInfoOf(m, t, p) ==
    [nodeId |-> 7, manufacturerId |-> m, productType |-> t, productId |-> p]

NodeInfos ==
    {nullObject, undefinedObject,
     nodeInfoOf(manufacturerId, productType, 1619),
     nodeInfoOf(manufacturerId, productType, 2387),
     nodeInfoOf(manufacturerId, productType, 1875),
     nodeInfoOf(manufacturerId + 1, productType, 1619),
     nodeInfoOf(manufacturerId, productType + 1, 2387)}

Answers == {"YES", "yes", "Yes", "YES ", "Y", "NO", ""}

exit(code) == [command EXCEPT !.pc = "exited", !.exit = code]
crash == [command EXCEPT !.pc = "crashed"]

engineIdle ==
    UNCHANGED <<blob, pc, engineVars, reply, simVars, sent, repeats,
                accepted, net, readerVars, crcRun, server>>

\* const archive = await readFirmwareArchive(file)
ReadArchive ==
    /\ command.pc = "readArchive"
    /\ \E file \in Files :
           command' =
               IF readFirmwareArchive(file).error # <<>> THEN crash
               ELSE [command EXCEPT
                        !.pc = "getNodeInfo",
                        !.archive = readFirmwareArchive(file).archive]
    /\ engineIdle

\* from the node information to the question, src/index.js:621-662
identified(nodeInfo) ==
    IF getProductId(nodeInfo) = nullText THEN exit(1)
    ELSE IF getProductId(nodeInfo) \notin DOMAIN command.archive.products
    THEN [exit(1) EXCEPT !.productId = getProductId(nodeInfo)]
    ELSE [command EXCEPT
             !.pc = "prompt",
             !.nodeInfo = nodeInfo,
             !.productId = getProductId(nodeInfo),
             !.product = command.archive.products[getProductId(nodeInfo)]]

OnNodeInfo ==
    /\ command.pc = "getNodeInfo"
    /\ \E nodeInfo \in NodeInfos :
           command' =
               IF nodeInfo = nullObject THEN exit(1)
               ELSE IF nodeInfo = undefinedObject THEN crash
               ELSE identified(nodeInfo)
    /\ engineIdle

\* variant: the answer is compared without regard to case
confirmed_anyCase(answer) == answer \in {"YES", "yes", "Yes"}

confirmed(answer) == answer = "YES"

\* from the answer to the call of uploadFirmware, src/index.js:663-671;
\* the blob of a product that has none is undefined and blob.length throws
OnAnswer ==
    /\ command.pc = "prompt"
    /\ \E answer \in Answers :
           /\ command' =
                  IF ~confirmed(answer)
                  THEN [exit(1) EXCEPT !.answer = answer]
                  ELSE IF command.product.blob = undefined
                  THEN [crash EXCEPT !.answer = answer]
                  ELSE [command EXCEPT !.pc = "uploading",
                                       !.answer = answer]
           /\ blob' = IF confirmed(answer) /\ command.product.blob # undefined
                      THEN command.product.blob ELSE blob
    /\ UNCHANGED <<pc, engineVars, reply, simVars, sent, repeats, accepted,
                   net, readerVars, crcRun, server>>

\* uploadFirmware(product.blob, transport)
Uploading ==
    /\ command.pc = "uploading"
    /\ Preflight \/ AnySendAndReceive \/ Resume

\* if (!result) process.exit(1); await server.disconnect()
OnResult ==
    /\ command.pc = "uploading"
    /\ pc = "returned"
    /\ command' = exit(IF result = "false" THEN 1 ELSE 0)
    /\ engineIdle

InitUpload == Init /\ blob = <<>>

NextUpload == ReadArchive \/ OnNodeInfo \/ OnAnswer \/ Uploading \/ OnResult

SpecUpload == InitUpload /\ [][NextUpload]_vars

(***************************************************************************)
(* The checksums of src/crc.js folded over a buffer byte by byte: one step *)
(* is one call of crc16update and one turn of the loop of crc32firmware.   *)
(***************************************************************************)
\* the bytes of the ASCII string "123456789"
digits123456789 == <<49, 50, 51, 52, 53, 54, 55, 56, 57>>

CrcBytes == {0, 1, 128, 255}

CrcInputs ==
    UNION {[1..len -> CrcBytes] : len \in 0..CrcLength}
        \cup {digits123456789, BlobOf(12, 1), BlobOf(12, 2)}

UpdateCrc ==
    /\ crcRun.n < Len(crcRun.buf)
    /\ crcRun' =
           [crcRun EXCEPT
               !.n = @ + 1,
               !.crc16 = crc16update(@, crcRun.buf[crcRun.n + 1]),
               !.crc32 = crc32step(@, crcRun.buf[crcRun.n + 1])]
    /\ UNCHANGED <<blob, pc, engineVars, reply, simVars, sent, repeats,
                   accepted, net, readerVars, command, server>>

InitCrc ==
    /\ InitProgram
    /\ blob = <<>>
    /\ crcRun \in {crcStart(buf) : buf \in CrcInputs}

NextCrc == UpdateCrc

SpecCrc == InitCrc /\ [][NextCrc]_vars

(***************************************************************************)
(* uploadFirmware over the gateway transport, src/index.js:387-419 and     *)
(* 455-465: ZwaveJS2MqttServer.sendAndReceive publishes the call, and the  *)
(* handler of 'message' (src/index.js:348-357) resolves it.  The gateway   *)
(* answers each call once; the broker may dispatch the answer before or    *)
(* after the acknowledgement of the publish resumes _sendCommand.  Before  *)
(* the upload the command calls getNodeInfo, which goes through            *)
(* _driverFunction (src/index.js:370-385, 421-436) the same way.           *)
(***************************************************************************)
\* the topics the server subscribes to, src/index.js:329 and 332
sendCommandResultTopic == "api/sendCommand"
driverFunctionResultTopic == "api/driverFunction"

\* a message of the gateway on a result topic, as JSON.parse returns it;
\* result is result.data.data for sendCommand (null when result is absent)
responseOf(topic, args, success, data) ==
    [topic |-> topic, args |-> args, success |-> success, result |-> data]

\* the node the command was started for
nodeId == 7

\* sendAndReceive: this._sendCommand(nodeId, 0, 0x91, "sendAndReceiveData",
\* ...), src/index.js:388
sendAndReceiveCall ==
    [nodeId |-> nodeId, endpoint |-> 0, commandClass |-> 145,
     method |-> "sendAndReceiveData"]

\* getNodeInfo: the code handed to _driverFunction, src/index.js:371-384
getNodeInfoCode(node) == <<"driver.controller.nodes.get", node>>

\* args that fail to echo the call in one place
Mismatches ==
    {[sendAndReceiveCall EXCEPT !.nodeId = nodeId + 1],
     [sendAndReceiveCall EXCEPT !.endpoint = 1],
     [sendAndReceiveCall EXCEPT !.commandClass = 146],
     [sendAndReceiveCall EXCEPT !.method = "sendData"]}

Responses ==
    {responseOf(sendCommandResultTopic, sendAndReceiveCall, TRUE, r) :
        r \in AnyReplies}
        \cup {responseOf(sendCommandResultTopic, args, TRUE,
                         seqReply(packetDataRequest, 0)) :
                 args \in Mismatches}
        \cup {responseOf(sendCommandResultTopic, sendAndReceiveCall, FALSE,
                         r) :
                 r \in {null, seqReply(packetDataRequest, 0)}}

\* what the gateway may answer to getNodeInfo(nodeId)
DriverResponses ==
    {responseOf(driverFunctionResultTopic, getNodeInfoCode(nodeId), TRUE,
                n) :
        n \in {nullObject, nodeInfoOf(manufacturerId, productType, 1619)}}
        \cup {responseOf(driverFunctionResultTopic,
                         getNodeInfoCode(nodeId + 1), TRUE,
                         nodeInfoOf(manufacturerId, productType, 1619)),
              responseOf(driverFunctionResultTopic,
                         getNodeInfoCode(nodeId), FALSE,
                         nodeInfoOf(manufacturerId, productType, 1619))}

\* a call starts: the histories of the call before are cleared
called(at, response) ==
    [server EXCEPT !.pc = at,
                   !.published = response,
                   !.response = response,
                   !.dispatched = FALSE,
                   !.outcomes = <<>>]

serverOnly ==
    UNCHANGED <<blob, pc, engineVars, reply, simVars, sent, repeats,
                accepted, net, readerVars, command, crcRun>>

\* server.getNodeInfo(nodeId) up to `await this._publish(...)`,
\* src/index.js:421-423
DriverFunction ==
    /\ server.pc = "idle"
    /\ server.nodeInfo = noResponse
    /\ \E response \in DriverResponses :
           server' = called("publishingCode", response)
    /\ serverOnly

\* the publish is acknowledged: this._driverFunctionResolve = resolve
DriverAck ==
    /\ server.pc = "publishingCode"
    /\ server' = [server EXCEPT !.pc = "waitingCode",
                                !._driverFunctionResolve = TRUE]
    /\ serverOnly

\* transport.sendAndReceive(currentPacket) up to `await this._publish(...)`
SendCommand ==
    /\ server.pc = "idle"
    /\ Transmit
    /\ \E response \in Responses :
           server' = called("publishing", response)
    /\ UNCHANGED <<reply, simVars, net>>

\* the publish is acknowledged: this._sendCommandResolve = resolve
PublishAck ==
    /\ server.pc = "publishing"
    /\ server' = [server EXCEPT !.pc = "waiting",
                                !._sendCommandResolve = TRUE]
    /\ serverOnly

\* the message handler is through with the message
handledMessage ==
    [server EXCEPT !.published = noResponse, !.dispatched = TRUE]

\* variant: the method of the response is not compared
echoes_anyMethod(response, call) ==
    /\ response.args.nodeId = call.nodeId
    /\ response.args.endpoint = call.endpoint
    /\ response.args.commandClass = call.commandClass

\* the four comparisons of src/index.js:411-414
echoes(response, call) ==
    /\ response.args.nodeId = call.nodeId
    /\ response.args.endpoint = call.endpoint
    /\ response.args.commandClass = call.commandClass
    /\ response.args.method = call.method

\* variant: the handler leaves _sendCommandResolve set
resolved_keepsResolver(response) ==
    IF ~echoes(response, sendAndReceiveCall) \/ ~response.success
    THEN /\ server' = [handledMessage EXCEPT
                          !.pc = "threw",
                          !.outcomes = Append(@, "error")]
         /\ reply' = reply
    ELSE /\ server' = [handledMessage EXCEPT
                          !.pc = "idle",
                          !.outcomes =
                              Append(@, IF response.result = null
                                        THEN "timeout" ELSE "reply")]
         /\ reply' = response.result

\* the rest of _sendCommand and of sendAndReceive once the promise resolved
resolved(response) ==
    IF ~echoes(response, sendAndReceiveCall) \/ ~response.success
    THEN /\ server' = [handledMessage EXCEPT
                          !.pc = "threw",
                          !._sendCommandResolve = FALSE,
                          !.outcomes = Append(@, "error")]
         /\ reply' = reply
    ELSE /\ server' = [handledMessage EXCEPT
                          !.pc = "idle",
                          !._sendCommandResolve = FALSE,
                          !.outcomes =
                              Append(@, IF response.result = null
                                        THEN "timeout" ELSE "reply")]
         /\ reply' = response.result

\* the rest of _driverFunction once the promise resolved, and the test of
\* the upload action on what getNodeInfo returned, src/index.js:621-625
resolvedCode(response) ==
    IF response.args # getNodeInfoCode(nodeId) \/ ~response.success
    THEN server' = [handledMessage EXCEPT
                       !.pc = "threw",
                       !._driverFunctionResolve = FALSE,
                       !.outcomes = Append(@, "error")]
    ELSE server' = [handledMessage EXCEPT
                       !.pc = IF response.result = nullObject
                              THEN "exited" ELSE "idle",
                       !._driverFunctionResolve = FALSE,
                       !.nodeInfo = response.result,
                       !.outcomes = Append(@, "result")]

\* this._client.on('message', ...) with a message on a result topic
Dispatch ==
    /\ server.published # noResponse
    /\ IF /\ server.published.topic = sendCommandResultTopic
          /\ server._sendCommandResolve
       THEN resolved(server.published)
       ELSE IF /\ server.published.topic = driverFunctionResultTopic
               /\ server._driverFunctionResolve
       THEN resolvedCode(server.published) /\ reply' = reply
       ELSE /\ server' = [handledMessage EXCEPT
                              !.dropped = server.dropped + 1]
            /\ reply' = reply
    /\ UNCHANGED <<blob, pc, engineVars, simVars, sent, repeats, accepted,
                   net, readerVars, command, crcRun>>

\* uploadFirmware is called once getNodeInfo has returned a node
GatewayPreflight == server.nodeInfo # noResponse /\ Preflight

\* the awaited sendAndReceive has returned
GatewayResume == server.pc = "idle" /\ Resume

InitGateway == Init /\ blob = BlobOf(knownFirmwareSize, 1)

NextGateway ==
    \/ DriverFunction \/ DriverAck \/ Dispatch
    \/ GatewayPreflight \/ SendCommand \/ PublishAck \/ GatewayResume

SpecGateway == InitGateway /\ [][NextGateway]_vars

(***************************************************************************)
(* The gateway transport on result topics that carry more than the one     *)
(* answer to each call: the topics are shared by every client of the       *)
(* gateway, so the 'message' handler (src/index.js:348-357) may be called  *)
(* again with the answer it has had, or with the answer to a call of       *)
(* somebody else, on either topic.                                         *)
(***************************************************************************)
\* the further messages: the answer to the call last made, once more, and
\* one answer to somebody else's call on each topic
extraMessage(kind) ==
    CASE kind = "again" -> server.response
      [] kind = "command" ->
             responseOf(sendCommandResultTopic, sendAndReceiveCall, TRUE,
                        seqReply(packetDataRequest, 0))
      [] kind = "function" ->
             responseOf(driverFunctionResultTopic, getNodeInfoCode(nodeId),
                        TRUE, nodeInfoOf(manufacturerId, productType, 2387))

\* the broker has a further message for the handler
Republish ==
    /\ server.published = noResponse
    /\ server.pc \notin {"threw", "exited"}
    /\ server.extra < MaxExtra
    /\ \E kind \in {"again", "command", "function"} :
           /\ extraMessage(kind) # noResponse
           /\ server' = [server EXCEPT !.published = extraMessage(kind),
                                       !.extra = server.extra + 1]
    /\ serverOnly

NextBroker == NextGateway \/ Republish

SpecBroker == InitGateway /\ [][NextBroker]_vars

(***************************************************************************)
(* FakeTransport on its own, src/index.js:240-323: sendAndReceive called   *)
(* with any packet in any state of the simulator, as a caller other than   *)
(* uploadFirmware may call it.                                             *)
(***************************************************************************)
\* n bytes of payload
payload(n) == [i \in 1..n |-> (7 * i) % 256]

\* a DATA packet for seq with the CRC-16 of its prefix
dataOf(seq, data) ==
    withCrc(<<commandFirmwareTransfer, packetData, seq % 256, seq \div 256>>
                \o data)

\* the packet with its last byte changed
corrupt(packet) ==
    [packet EXCEPT ![Len(packet)] = (packet[Len(packet)] + 1) % 256]

\* the packet under another command byte
foreign(packet) == [packet EXCEPT ![1] = commandOther]

DataPackets ==
    {dataOf(seq, payload(n)) :
        seq \in 0..FirmwareBlocks, n \in {0, 32, 33}}
        \cup {dataOf(FirmwareBlocks, payload(1)),
              dataOf(FirmwareBlocks + 1, payload(0))}

Packets ==
    DataPackets
        \cup {corrupt(dataOf(seq, payload(32))) : seq \in 0..FirmwareBlocks}
        \cup {foreign(dataOf(0, payload(32))),
              <<commandFirmwareTransfer, packetData>>,
              <<commandFirmwareTransfer, packetData, 0, 0, 0>>}
        \cup {seqReply(packetDone, seq) : seq \in 0..FirmwareBlocks}
        \cup {<<commandFirmwareTransfer, packetDone>>,
              <<commandFirmwareTransfer, packetDone, 0>>,
              foreign(seqReply(packetDone, 0))}
        \cup {<<commandFirmwareTransfer, packetStart>>,
              <<commandFirmwareTransfer + 256, packetStart>>,
              <<commandOther, packetStart>>,
              <<>>, <<commandFirmwareTransfer>>}
        \cup {<<commandFirmwareTransfer, packetUnknown>>,
              seqReply(packetUnknown, 0),
              seqReply(packetDataRequest, 0),
              seqReply(packetCRCError, 0)}

\* transport.sendAndReceive(packet)
Probe ==
    /\ \E packet \in Packets : Handle(packet, TRUE)
    /\ UNCHANGED <<blob, pc, engineVars, sent, repeats, accepted, net,
                   otherVars>>

InitSim == Init /\ blob = BlobOf(knownFirmwareSize, 1)

NextSim == Probe

SpecSim == InitSim /\ [][NextSim]_vars

(***************************************************************************)
(* Properties.                                                             *)
(***************************************************************************)
\* the sequence 0, 1, ..., n-1
Upto(n) == [i \in 1..n |-> i - 1]

\* ceil(blob.length / 32)
blocksOf(b) == (Len(b) + 31) \div 32

startPacket == <<commandFirmwareTransfer, packetStart>>

\* C1: with a blob whose length differs from knownFirmwareSize,
\* uploadFirmware returns false before anything is sent: the transport is
\* never called and neither the engine's nor the simulator's state changes.
C1_SizeMismatchSendsNothing ==
    Len(blob) # knownFirmwareSize =>
        /\ pc \in {"start", "returned"}
        /\ pc = "returned" => result = "false" /\ log = "size"
        /\ sent = <<>> /\ repeats = 0 /\ reply = null
        /\ currentSeq = -1 /\ currentPacket = startPacket
        /\ timeouts = 0 /\ done = FALSE /\ accepted = <<>>
        /\ simState = "wait" /\ simNextSeq = 0 /\ simData = <<>>
        /\ simBlob = [i \in 1..knownFirmwareSize |-> 0]

C1_Witness == Len(blob) # knownFirmwareSize /\ pc = "returned"

C3_RetransmitIdentical ==
    [][/\ (pc = "resume" /\ reply = null /\ timeouts + 1 < maxTimeouts) =>
              /\ timeouts' = timeouts + 1
              /\ pc' = "send"
              /\ UNCHANGED <<currentSeq, currentPacket, done, result,
                             accepted>>
       /\ (pc = "send" /\ timeouts > 0) =>
              /\ sent[Len(sent)] = currentPacket
              /\ sent' = sent
              /\ repeats' = timeouts + 1]_vars

C3_Witness ==
    /\ pc = "send"
    /\ timeouts = maxTimeouts - 1
    /\ repeats = maxTimeouts - 1
    /\ At(currentPacket, 1) = packetData

\* C4: the engine gives up exactly at the fifth timeout in a row: after 1
\* to 4 of them it is about to resend the same packet, at the fifth it has
\* returned false, and no packet goes out more than maxTimeouts times in a
\* row without a reply in between.
C4_GivesUpAtFifthTimeout ==
    /\ timeouts \in 0..maxTimeouts
    /\ repeats <= maxTimeouts
    /\ timeouts = maxTimeouts <=>
           (pc = "returned" /\ log \in {"timeout", "assumed"})
    /\ timeouts = maxTimeouts => result = "false" /\ repeats = maxTimeouts
    /\ (pc = "send" /\ timeouts > 0) =>
           currentPacket = sent[Len(sent)] /\ repeats = timeouts

C4_Witness ==
    /\ pc = "returned" /\ log = "timeout"
    /\ repeats = maxTimeouts /\ currentSeq >= 0

\* C5: against the simulator, the DATA packets the simulator stores are
\* those of seq 0, 1, ..., knownFirmwareSize / 32 - 1 in that order, each
\* once, and all of them before it takes DONE.
C5_SimulatorStoresBlocksInOrder ==
    /\ simData = Upto(Len(simData))
    /\ simNextSeq = Len(simData)
    /\ Len(simData) <= knownFirmwareSize \div 32
    /\ simState = "done" => simData = Upto(knownFirmwareSize \div 32)
    /\ (pc = "returned" /\ Len(blob) = knownFirmwareSize) =>
           simState = "done"

C5_Witness == simState = "done" /\ Len(simData) = FirmwareBlocks

\* C6: maxTimeouts timeouts in a row after DONE was sent end the run on
\* the "assumed uploaded" message with the result false; every full run
\* against the simulator ends so, DONE(knownFirmwareSize / 32) having gone
\* out maxTimeouts times, and none returns true; the command exits with
\* code 1.
C6_NoConfirmationIsFailure ==
    /\ result # "true"
    /\ pc = "returned" => exitCode = 1
    /\ (timeouts = maxTimeouts /\ done) => log = "assumed"
    /\ log = "assumed" =>
           pc = "returned" /\ result = "false" /\ done
               /\ timeouts = maxTimeouts
    /\ (pc = "returned" /\ Len(blob) = knownFirmwareSize) =>
           /\ log = "assumed"
           /\ simState = "done"
           /\ repeats = maxTimeouts
           /\ sent[Len(sent)] =
                  <<commandFirmwareTransfer, packetDone,
                    (knownFirmwareSize \div 32) % 256,
                    (knownFirmwareSize \div 32) \div 256>>

C6_Witness == log = "assumed" /\ repeats = maxTimeouts

\* C7 as stated: when the first maxTimeouts - 1 replies of the simulator
\* are dropped and every later one is delivered, the run carries the
\* transfer through, the simulator storing every block in order.
C7_Original ==
    (/\ pc = "returned" /\ Len(blob) = knownFirmwareSize
     /\ net.dropped = maxTimeouts - 1 /\ net.lost = 0 /\ ~net.late) =>
        simState = "done" /\ simData = Upto(knownFirmwareSize \div 32)

\* C7 amended: when the first maxTimeouts - 1 packets are lost before the
\* simulator handles them, and nothing is lost or dropped afterwards, the
\* engine has resent START maxTimeouts - 1 times and then carries the
\* transfer through: the simulator stores every block in order and takes
\* DONE, and the run ends on the "assumed uploaded" message.
C7_LostPacketsRecovered ==
    (/\ Len(blob) = knownFirmwareSize
     /\ net.lost = maxTimeouts - 1 /\ net.dropped = 0 /\ ~net.late) =>
        /\ sent[1] = startPacket
        /\ ~net.delivered =>
               /\ pc \in {"resume", "send"}
               /\ simState = "wait" /\ sent = <<startPacket>>
               /\ pc = "send" =>
                      timeouts = maxTimeouts - 1
                          /\ repeats = maxTimeouts - 1
                          /\ currentPacket = startPacket
        /\ simData = Upto(Len(simData))
        /\ pc = "returned" =>
               /\ simState = "done"
               /\ simData = Upto(knownFirmwareSize \div 32)
               /\ log = "assumed" /\ result = "false"

C7_Witness ==
    /\ pc = "returned" /\ simState = "done"
    /\ net.lost = maxTimeouts - 1 /\ net.dropped = 0 /\ ~net.late

isCrcError(r) ==
    /\ Len(r) >= 4
    /\ At(r, 0) = commandFirmwareTransfer
    /\ At(r, 1) = packetCRCError

\* C8: once a reply of at least 4 bytes with command byte 42 and type
\* CRC_ERROR has been taken, the engine has returned false, whatever
\* currentSeq and done are, and calls the transport no more.
C8_CrcErrorIsFatal ==
    /\ (isCrcError(reply) /\ pc # "resume") =>
           /\ pc = "returned" /\ result = "false" /\ log = "crcerror"
           /\ ~ENABLED AnySendAndReceive
    /\ log = "crcerror" => isCrcError(reply)

C8_Witness == isCrcError(reply) /\ pc = "returned" /\ done

\* the layout [42, 2, seq lo, seq hi, 1 to 32 bytes, crc lo, crc hi], the
\* crc being the XMODEM CRC-16 of all the bytes before it
Framed(p, seq) ==
    /\ Len(p) - 6 \in 1..32
    /\ \A i \in 1..Len(p) : p[i] \in 0..255
    /\ At(p, 0) = commandFirmwareTransfer
    /\ At(p, 1) = packetData
    /\ At(p, 2) + 256 * At(p, 3) = seq
    /\ At(p, Len(p) - 2) + 256 * At(p, Len(p) - 1) =
           crc16of(subarray(p, 0, Len(p) - 2))

\* the DATA packets of the first block, of the blocks around the carry
\* into the high byte of seq and of the last block of a blob of
\* sourceFirmwareSize bytes
EdgePacketsFramed ==
    \A q \in {0, 255, 256, sourceFirmwareSize \div 32 - 1} :
        Framed(DataPacket(BlobOf(sourceFirmwareSize, 1), q), q)

\* C9: every DATA packet the engine emits is
\* [42, 2, seq lo, seq hi, payload, crc lo, crc hi] with a payload of 1 to
\* 32 bytes, seq in two bytes least significant first, and the XMODEM
\* CRC-16 of all preceding bytes in the last two bytes, least significant
\* first.
C9_DataPacketFramed ==
    /\ pc = "resume" => sent[Len(sent)] = currentPacket
    /\ At(currentPacket, 1) = packetData => Framed(currentPacket, currentSeq)
    /\ EdgePacketsFramed

C9_Witness ==
    /\ pc = "resume"
    /\ At(currentPacket, 1) = packetData
    /\ currentSeq = FirmwareBlocks - 1

\* C10: the CRC-32 gate rejects no blob: the pre-flight never ends on the
\* CRC message and the simulator never goes to error on a DONE it takes
\* but to done, also for blobs whose last four bytes are not the CRC-32 of
\* the rest.
C10_Crc32GateNeverRejects ==
    /\ log # "crc"
    /\ simState # "error"
    /\ (Len(blob) = knownFirmwareSize /\ pc # "start") =>
           pc # "returned" \/ simState = "done"

C10_Witness ==
    /\ simState = "done"
    /\ actualFirmwareCRC(blob) # expectedFirmwareCRC(blob)
    /\ actualFirmwareCRC(simBlob) # expectedFirmwareCRC(simBlob)

(***************************************************************************)
(* Properties of readFirmwareArchive.                                      *)
(***************************************************************************)
\* the step handles a line
lineRead == lineNo' = lineNo + 1

\* the bytes of a record line and the type they carry
isRecordOfType(line, types) ==
    /\ startsWithColon(line)
    /\ Len(recordOf(line)) >= 4
    /\ At(recordOf(line), 3) \in types

productsOf(r) == r.archive.products

\* C12: a blob attached to a product is never replaced by another blob, and
\* an EOF record (type 1) that arrives while the current product has a blob
\* leaves the handler with an error.
C12_SecondBlobRejected ==
    [][lineRead =>
        /\ (/\ isRecordOfType(lastLine', {1})
            /\ reader.productId # undefinedText
            /\ productsOf(reader)[reader.productId].blob # undefined)
               => reader'.error # <<>>
        /\ \A p \in DOMAIN productsOf(reader) :
               (/\ productsOf(reader)[p].blob # undefined
                /\ productsOf(reader')[p].blob # undefined)
                   => productsOf(reader')[p].blob = productsOf(reader)[p].blob
       ]_vars

C12_Witness ==
    /\ lastLine = eofLine
    /\ reader.error = <<"Encountered a second blob for the same product">>
    /\ productsOf(reader)[reader.productId].blob # undefined

\* C13: a line that does not start with ':' ends in an error exactly when
\* a blob is open, and then nothing but the error is recorded.
C13_HeaderOnlyBetweenBlobs ==
    [][(lineRead /\ ~startsWithColon(lastLine')) =>
        /\ reader'.error # <<>> <=> reader.blob # undefined
        /\ reader.blob # undefined =>
               reader' = [reader EXCEPT !.error =
                   <<"Encountered metadata while decoding a blob">>]
       ]_vars

C13_Witness ==
    /\ ~startsWithColon(lastLine)
    /\ reader.error = <<"Encountered metadata while decoding a blob">>
    /\ writes # <<>>

\* the highest end address of the data records of the log, 0 if it is empty
RECURSIVE maxEnd(_)
maxEnd(ws) ==
    IF ws = <<>> THEN 0
    ELSE IF Head(ws).start + Len(Head(ws).data) > maxEnd(Tail(ws))
    THEN Head(ws).start + Len(Head(ws).data)
    ELSE maxEnd(Tail(ws))

covers(w, i) == w.start <= i /\ i < w.start + Len(w.data)

\* the byte the last record of the log that covers index i carries there
lastWritten(ws, i) ==
    At(ws[CHOOSE k \in 1..Len(ws) :
               /\ covers(ws[k], i)
               /\ \A j \in (k + 1)..Len(ws) : ~covers(ws[j], i)].data,
       i - ws[CHOOSE k \in 1..Len(ws) :
                   /\ covers(ws[k], i)
                   /\ \A j \in (k + 1)..Len(ws) : ~covers(ws[j], i)].start)

\* the step takes an EOF record and attaches the blob to the product
blobFinished ==
    /\ lineRead
    /\ isRecordOfType(lastLine', {1})
    /\ reader'.error = <<>>

finishedBlob == productsOf(reader')[reader'.productId].blob

\* C14: the blob attached at an EOF record is as long as the highest end
\* address of the data records written to it (0 if none); each index a data
\* record wrote holds the byte of the last record that wrote it, every
\* other index holds 0xFF.
C14_BlobMatchesRecords ==
    [][blobFinished =>
        /\ Len(finishedBlob) = maxEnd(writes')
        /\ productsOf(reader')[reader'.productId].blobLength = maxEnd(writes')
        /\ \A i \in 0..(Len(finishedBlob) - 1) :
               At(finishedBlob, i) =
                   IF \E k \in 1..Len(writes') : covers(writes'[k], i)
                   THEN lastWritten(writes', i)
                   ELSE 255
       ]_vars

\* a blob of two overlapping records and a gap before a third
C14_Witness ==
    /\ lastLine = eofLine
    /\ reader.error = <<>>
    /\ Len(writes) = 3
    /\ covers(writes[1], 8) /\ covers(writes[2], 8)
    /\ \E i \in 0..(reader.maxAddress - 1) :
           \A k \in 1..Len(writes) : ~covers(writes[k], i)

\* the locals a record line finds once its blob is open: a fresh buffer of
\* 0xFF with both addresses at 0 if none was open
blobBefore ==
    IF reader.blob = undefined THEN [i \in 1..maxBlobLength |-> 255]
    ELSE reader.blob
segmentBefore ==
    IF reader.blob = undefined THEN 0 ELSE reader.extendedSegmentAddress
maxAddressBefore == IF reader.blob = undefined THEN 0 ELSE reader.maxAddress

\* the record of the line the step handles, and the address it names
recordRead == recordOf(lastLine')
addressRead ==
    segmentBefore * 16 + At(recordRead, 1) * 256 + At(recordRead, 2)

\* the buffer holds what it held before the line
notWritten == reader'.blob \in {reader.blob, blobBefore}

\* C15: a record of type 0 is taken only if its length byte is 16 and
\* (extendedSegmentAddress << 4) + offset + 16 <= maxBlobLength; its 16 data
\* bytes then lie at that address, the rest of the buffer is as before and
\* maxAddress is the larger of its old value and the end address.  A record
\* of type 0 that is not taken leaves the buffer unwritten.
C15_DataRecordWritten ==
    [][(lineRead /\ isRecordOfType(lastLine', {0})) =>
        IF reader'.error = <<>>
        THEN /\ At(recordRead, 0) = 16
             /\ addressRead + 16 <= maxBlobLength
             /\ reader'.blob =
                    [i \in 1..maxBlobLength |->
                        IF addressRead < i /\ i <= addressRead + 16
                        THEN recordRead[4 + i - addressRead]
                        ELSE blobBefore[i]]
             /\ reader'.maxAddress =
                    IF addressRead + 16 > maxAddressBefore
                    THEN addressRead + 16 ELSE maxAddressBefore
        ELSE notWritten
       ]_vars

\* the last 16 bytes of the buffer written through a segment address
C15_Witness ==
    /\ lastLine = dataLine(0, 1)
    /\ reader.error = <<>>
    /\ reader.extendedSegmentAddress = (maxBlobLength \div 16) - 1
    /\ reader.maxAddress = maxBlobLength
    /\ subarray(reader.blob, maxBlobLength - 16, maxBlobLength) = dataBytes(1)

\* every character after the ':' is a hex digit
isHexLine(line) == \A i \in 2..Len(line) : digitValue(line[i]) >= 0

\* the checks on the line alone: odd length of at least 11, hex digits only,
\* bytes that sum to 0 modulo 256
checksumFramed(line) ==
    /\ Len(line) % 2 = 1
    /\ Len(line) >= 11
    /\ isHexLine(line)
    /\ sumOf(recordOf(line)) % 256 = 0

\* C16: a record line the handler takes has odd length of at least 11, is
\* made of hex digits and its decoded bytes sum to 0 modulo 256.
C16_AcceptedRecordsFramed ==
    (lineNo > 0 /\ startsWithColon(lastLine) /\ reader.error = <<>>)
        => checksumFramed(lastLine)

\* a record with a length byte that matches its length
wellFramed(line) ==
    /\ startsWithColon(line)
    /\ checksumFramed(line)
    /\ At(recordOf(line), 0) + 5 = Len(recordOf(line))

unsupported(line) ==
    wellFramed(line) /\ ~isRecordOfType(line, {0, 1, 2})

rejectedAsUnsupported ==
    /\ reader'.error = <<"Unsupported record type", At(recordRead, 3)>>
    /\ notWritten
    /\ reader'.archive = reader.archive

\* C17 as stated: every well-framed record of a type other than 0, 1, 2 ends
\* in the error that names the type, writes no byte and attaches no blob.
C17_Original ==
    [][(lineRead /\ unsupported(lastLine')) => rejectedAsUnsupported]_vars

\* C17: a well-framed record of a type other than 0, 1, 2 that comes after
\* product metadata ends in the error that names the type, writes no byte
\* and attaches no blob; before any product metadata it ends in another
\* error, and writes and attaches nothing either.
C17_UnsupportedTypeRejected ==
    [][(lineRead /\ unsupported(lastLine')) =>
        IF reader.productId # undefinedText THEN rejectedAsUnsupported
        ELSE reader' = [reader EXCEPT !.error =
                 <<"Missing product metadata while decoding blob">>]
       ]_vars

C17_Witness ==
    /\ lastLine = typeLine(3)
    /\ reader.error = <<"Unsupported record type", 3>>
    /\ writes # <<>>

(***************************************************************************)
(* Properties of the upload command.                                       *)
(***************************************************************************)
\* the node is a PE653 or a PE953 of Intermatic
knownProduct(nodeInfo) ==
    /\ nodeInfo.manufacturerId = 5
    /\ nodeInfo.productType = 20549
    /\ nodeInfo.productId \in {1619, 2387}

\* node information of a known product was fetched and the archive has an
\* entry for its product code
productFound ==
    /\ command.nodeInfo # undefinedObject
    /\ knownProduct(command.nodeInfo)
    /\ command.productId \in DOMAIN command.archive.products
    /\ command.product = command.archive.products[command.productId]

\* C11: a packet goes out only after node information of a known product
\* was fetched, the archive has an entry for its product code and the answer
\* was exactly "YES", in that order (the question is asked only once the
\* entry is found); any other answer ends the process with exit code 1 and
\* no packet sent.
C11_NoPacketBeforeConfirmation ==
    /\ sent # <<>> =>
           /\ command.pc \in {"uploading", "exited"}
           /\ productFound
           /\ command.answer = "YES"
    /\ command.pc \in {"prompt", "uploading"} => productFound
    /\ command.pc = "uploading" => command.answer = "YES"
    /\ command.answer # "YES" =>
           /\ sent = <<>>
           /\ pc = "start"
           /\ command.pc = "exited" => command.exit = 1

C11_Witness ==
    /\ command.pc = "uploading"
    /\ Len(sent) > 1
    /\ command.nodeInfo.productId = 1619
    /\ command.answer = "YES"

(***************************************************************************)
(* Properties of the checksums.                                            *)
(***************************************************************************)
\* the bytes folded in so far
folded == SubSeq(crcRun.buf, 1, crcRun.n)

\* CRC-16/XMODEM by long division: the remainder of the message, followed
\* by 16 zero bits, divided by x^16 + x^12 + x^5 + 1 (0x11021), one bit at
\* a time from the most significant bit of the first byte
divideBit(rem, bit) ==
    IF rem * 2 + bit >= 65536 THEN BitXor(rem * 2 + bit, 69665)
    ELSE rem * 2 + bit

RECURSIVE divideByte(_, _, _)
divideByte(rem, byte, k) ==
    IF k = 0 THEN rem
    ELSE divideBit(divideByte(rem, byte, k - 1), (byte \div (2 ^ (8 - k))) % 2)

RECURSIVE divideFrom(_, _, _)
divideFrom(s, n, rem) ==
    IF n > Len(s) \/ rem < 0 THEN rem
    ELSE divideFrom(s, n + 1, divideByte(rem, s[n], 8))

xmodem(s) == divideFrom(s \o <<0, 0>>, 1, 0)

\* C18: after every byte the register of crc16update lies in 0..0xFFFF and
\* is the CRC-16/XMODEM of the bytes folded in so far; folding the rest of
\* the bytes from there gives the CRC of the whole sequence; the CRC of
\* "123456789" is 0x31C3.
C18_Crc16IsXmodem ==
    /\ crcRun.crc16 \in 0..65535
    /\ crcRun.crc16 = xmodem(folded)
    /\ crcRun.crc16 = crc16of(folded)
    /\ crc16fold(crcRun.buf, crcRun.n + 1, crcRun.crc16) = xmodem(crcRun.buf)
    /\ crc16of(digits123456789) = 12739

C18_Witness ==
    /\ crcRun.buf = digits123456789
    /\ crcRun.n = 9
    /\ crcRun.crc16 = 12739

\* ~w on a 32-bit register
WordNot(w) == [i \in 1..4 |-> 255 - w[i]]

\* the conventional reflected CRC-32: the register starts at 0xFFFFFFFF,
\* each byte is xored into its low byte and shifted out to the right in 8
\* steps against 0xEDB88320, and the result is inverted
RECURSIVE stdFrom(_, _, _)
stdFrom(s, n, reg) ==
    IF n > Len(s) \/ Len(reg) # 4 THEN reg
    ELSE stdFrom(s, n + 1, crc32brLoop(WordXor(reg, <<0, 0, 0, s[n]>>), 8))

stdCrc32(s) == WordNot(stdFrom(s, 1, <<255, 255, 255, 255>>))

bitReversed(s) == [i \in 1..Len(s) |-> reverseBits8(s[i])]

\* reverse_bits_32(~std_crc32(map(reverse_bits_8, s))), as a register
reference32(s) == reverseBits32(WordNot(stdCrc32(bitReversed(s))))

\* C19: crc32firmware of the bytes folded in so far is the unsigned number
\* reverse_bits_32(~std_crc32(map(reverse_bits_8, x))).
C19_Crc32IsUnsignedReference ==
    crc32firmware(folded) = Unsigned(reference32(folded))

(***************************************************************************)
(* Properties of the gateway transport.                                    *)
(***************************************************************************)
\* C20: a call of sendAndReceive yields at most one outcome, and once the
\* gateway's answer to it (echoing the call, success true) was dispatched
\* it has yielded exactly one: the reply packet, or the timeout marker when
\* the result is absent.
C20_OneOutcomePerCall ==
    /\ Len(server.outcomes) <= 1
    /\ (/\ server.dispatched
        /\ server.response.topic = sendCommandResultTopic
        /\ server.response.args = sendAndReceiveCall
        /\ server.response.success) =>
           /\ server.outcomes = IF server.response.result = null
                                THEN <<"timeout">> ELSE <<"reply">>
           /\ reply = server.response.result

\* the 'message' handler hands the published message to the call waiting
\* on its topic
handedTo(resolve, topic) ==
    /\ server.published # noResponse
    /\ server.published.topic = topic
    /\ server[resolve]
    /\ server'.published = noResponse

\* the response names the node, endpoint, command class and method of the
\* call and reports success
answersSendAndReceive(response) ==
    /\ response.args.nodeId = nodeId
    /\ response.args.endpoint = 0
    /\ response.args.commandClass = 145
    /\ response.args.method = "sendAndReceiveData"
    /\ response.success = TRUE

answersGetNodeInfo(response) ==
    /\ response.args = getNodeInfoCode(nodeId)
    /\ response.success = TRUE

\* C21: a sendCommand response handed to the waiting call is returned to
\* the caller only if it echoes nodeId, endpoint, commandClass and method
\* of the request and has success true, and then the caller gets its
\* result; with any mismatch or success false the call throws and the
\* caller's reply is left as it was.  Likewise a driverFunction response is
\* returned only if args[0] is the submitted code and success is true.
\* The Error is fatal: nothing happens after it.
C21_ResponseReturnedOnlyIfEchoed ==
    [][/\ handedTo("_sendCommandResolve", sendCommandResultTopic) =>
            IF answersSendAndReceive(server.published)
            THEN /\ server'.pc = "idle"
                 /\ reply' = server.published.result
                 /\ server'.outcomes \in {<<"reply">>, <<"timeout">>}
            ELSE /\ server'.pc = "threw"
                 /\ reply' = reply
                 /\ server'.outcomes = <<"error">>
       /\ handedTo("_driverFunctionResolve", driverFunctionResultTopic) =>
            IF answersGetNodeInfo(server.published)
            THEN /\ server'.pc \in {"idle", "exited"}
                 /\ server'.nodeInfo = server.published.result
                 /\ server'.outcomes = <<"result">>
            ELSE /\ server'.pc = "threw"
                 /\ server'.nodeInfo = server.nodeInfo
                 /\ server'.outcomes = <<"error">>
       /\ server.pc # "threw"]_vars

\* a response that echoes all but the method, success true and a reply
\* packet in its result, was handed to the call, which threw; and the call
\* of getNodeInfo before it had returned the node
C21_Witness ==
    /\ server.pc = "threw"
    /\ server.outcomes = <<"error">>
    /\ server.response.topic = sendCommandResultTopic
    /\ server.response.args.method # "sendAndReceiveData"
    /\ server.response.success
    /\ server.response.result # null
    /\ server.nodeInfo # noResponse

(***************************************************************************)
(* Properties of the engine's reply dispatch.                              *)
(***************************************************************************)
\* the reply the engine resumes with is a packet [CMD, type, seq lo, seq hi]
resumesWith(type) ==
    /\ pc = "resume"
    /\ reply # null
    /\ Len(reply) >= 4
    /\ At(reply, 0) = commandFirmwareTransfer
    /\ At(reply, 1) = type

C23_RequestZeroRestarts ==
    [][/\ (resumesWith(packetDataRequest) /\ replySeq(reply) = 0) =>
              /\ pc' = "send"
              /\ currentSeq' = 0
              /\ currentPacket' = DataPacket(blob, 0)
       /\ (resumesWith(packetDataRequest)
              /\ replySeq(reply) = currentSeq + 1) =>
              /\ pc' = "send"
              /\ currentSeq' = replySeq(reply)]_vars

\* a reply with the valid command byte and a packet type the engine has no
\* case for
unrecognized(r) ==
    /\ r # null
    /\ Len(r) >= 4
    /\ At(r, 0) = commandFirmwareTransfer
    /\ At(r, 1) \notin {packetDataRequest, packetDone, packetCRCError}

\* C24: a reply with the valid command byte and an unrecognized packet
\* type is ignored and not answered with a resend: the engine transmits no
\* packet on account of that reply.
C24_UnrecognizedReplyNotResent ==
    [][/\ (pc = "resume" /\ unrecognized(reply)) =>
              UNCHANGED <<currentSeq, currentPacket, done, result>>
       /\ ~(pc = "send" /\ unrecognized(reply) /\ pc' = "resume")]_vars

\* a reply too short to be a packet, or of another command
malformed(r) ==
    /\ r # null
    /\ Len(r) < 4 \/ At(r, 0) # commandFirmwareTransfer

\* C25: the count of timeouts in a row goes back to 0 only on a reply of
\* at least 4 bytes whose first byte is the command; a shorter reply or one
\* of another command leaves currentSeq, currentPacket, done, the result
\* and the count of timeouts as they are.
C25_OnlyValidReplyResetsTimeouts ==
    [][(pc = "resume" /\ malformed(reply)) =>
           /\ pc' = "send"
           /\ UNCHANGED <<currentSeq, currentPacket, done, result,
                          timeouts>>]_vars

(***************************************************************************)
(* Properties of the simulator.  In a step of SpecSim the simulator        *)
(* handles the packet received' in the state simState, simNextSeq,         *)
(* simBlob of before the step.                                             *)
(***************************************************************************)
hasCommand(p) == Len(p) >= 2 /\ At(p, 0) = commandFirmwareTransfer

isPacket(p, type) == hasCommand(p) /\ At(p, 1) = type

\* the seq field of a packet that has one
seqField(p) == At(p, 2) + 256 * At(p, 3)

malformedPacket(p) ==
    \/ ~hasCommand(p)
    \/ isPacket(p, packetData) /\ Len(p) < 6
    \/ isPacket(p, packetDone) /\ Len(p) < 4

outOfState(p) ==
    /\ ~malformedPacket(p)
    /\ \/ isPacket(p, packetStart) /\ simState # "wait"
       \/ /\ isPacket(p, packetData) \/ isPacket(p, packetDone)
          /\ simState # "transfer" \/ seqField(p) # simNextSeq

unrecognizedType(p) ==
    /\ hasCommand(p)
    /\ At(p, 1) \notin {packetStart, packetData, packetDone}

\* C26: in every state of the simulator a packet that is malformed (shorter
\* than 2 bytes, foreign command byte, DATA shorter than 6, DONE shorter
\* than 4), out of state (START outside wait; DATA or DONE outside transfer
\* or with a seq other than next_seq) or of an unrecognized type gets no
\* reply and leaves next_seq, the state and the received buffer unchanged.
C26_BadPacketsGetNoReply ==
    [][(\/ malformedPacket(received')
        \/ outOfState(received')
        \/ unrecognizedType(received')) =>
           /\ reply' = null
           /\ UNCHANGED <<simNextSeq, simState, simBlob>>]_vars

\* C27: once the simulator is in the state error, every packet it receives
\* is answered with [CMD, CRC_ERROR, next_seq lo, next_seq hi].
C27_ErrorStateAnswersCrcError ==
    [][simState = "error" =>
           reply' = seqReply(packetCRCError, simNextSeq)]_vars

\* the trailing two bytes of the packet are the CRC-16 of the bytes before
crcMatches(p) ==
    xmodem(subarray(p, 0, Len(p) - 2))
        = At(p, Len(p) - 2) + 256 * At(p, Len(p) - 1)

\* a DATA packet of at least 6 bytes for next_seq, in the state transfer
dataInTurn(p) ==
    /\ simState = "transfer"
    /\ isPacket(p, packetData)
    /\ Len(p) >= 6
    /\ seqField(p) = simNextSeq

\* the buffer with the payload of p at seq * 32
storedAt(p) ==
    [i \in 1..knownFirmwareSize |->
        IF i > seqField(p) * 32 /\ i <= seqField(p) * 32 + (Len(p) - 6)
        THEN p[i - (seqField(p) * 32) + 4]
        ELSE simBlob[i]]

\* C28: a DATA packet in the state transfer with seq = next_seq and a
\* correct CRC whose payload would end past the end of the buffer
\* (seq * 32 + payload length > knownFirmwareSize) moves the simulator to
\* error, writes nothing, leaves next_seq and is answered with CRC_ERROR;
\* any other such packet is stored at seq * 32, next_seq grows by exactly 1
\* and the reply is the DATA_REQUEST for the new next_seq.
C28_DataStoredOrOverrun ==
    [][(dataInTurn(received') /\ crcMatches(received')) =>
           IF seqField(received') * 32 + (Len(received') - 6)
                  > knownFirmwareSize
           THEN /\ simState' = "error"
                /\ UNCHANGED <<simBlob, simNextSeq>>
                /\ reply' = seqReply(packetCRCError, simNextSeq)
           ELSE /\ simState' = "transfer"
                /\ simBlob' = storedAt(received')
                /\ simNextSeq' = simNextSeq + 1
                /\ reply' = seqReply(packetDataRequest, simNextSeq + 1)]_vars

\* a DATA packet of 33 bytes of payload for the last block has moved the
\* simulator to error
C28_Witness ==
    /\ simState = "error"
    /\ isPacket(received, packetData)
    /\ crcMatches(received)
    /\ seqField(received) = simNextSeq
    /\ simNextSeq = FirmwareBlocks - 1
    /\ Len(received) - 6 = 33
    /\ reply = seqReply(packetCRCError, simNextSeq)

\* C29: a DATA packet in the state transfer with seq = next_seq whose
\* trailing CRC-16 is not the CRC of its prefix is dropped: no reply, and
\* state, next_seq and buffer unchanged; the same packet with the correct
\* CRC, sent after it, is accepted.
C29_BadCrcDropped ==
    [][/\ (dataInTurn(received') /\ ~crcMatches(received')) =>
              /\ reply' = null
              /\ UNCHANGED <<simState, simNextSeq, simBlob>>
       /\ (/\ dataInTurn(received) /\ ~crcMatches(received)
           /\ received' = dataOf(simNextSeq, payload(32))
           /\ simNextSeq < FirmwareBlocks) =>
              /\ simNextSeq' = simNextSeq + 1
              /\ simBlob' = storedAt(received')
              /\ reply' = seqReply(packetDataRequest, simNextSeq + 1)]_vars

\* the DATA packet of the second block has come with a wrong CRC and has
\* been dropped
C29_Witness ==
    /\ dataInTurn(received)
    /\ ~crcMatches(received)
    /\ simNextSeq = 1
    /\ reply = null

\* C30: the simulator enters done only on a DONE packet received in the
\* state transfer with seq = next_seq, and from then on it replies to
\* nothing: not to that DONE, not to the same DONE sent again, not to any
\* other packet.
C30_DoneIsSilent ==
    [][/\ (simState' = "done" /\ simState # "done") =>
              /\ simState = "transfer"
              /\ isPacket(received', packetDone)
              /\ Len(received') >= 4
              /\ seqField(received') = simNextSeq
       /\ (simState = "done" \/ simState' = "done") =>
              /\ reply' = null
              /\ simState' = "done"]_vars

\* all blocks stored, the DONE for next_seq received, no reply
C30_Witness ==
    /\ simState = "done"
    /\ simData = Upto(FirmwareBlocks)
    /\ received = seqReply(packetDone, FirmwareBlocks)
    /\ reply = null

(***************************************************************************)
(* Properties of the pending-resolver slots.                               *)
(***************************************************************************)
\* the 'message' handler is called with the published message, which is on
\* the given topic
delivers(topic) ==
    /\ server.published # noResponse
    /\ server.published.topic = topic
    /\ server'.published = noResponse

\* the handler lets the message pass: but for the histories the server is
\* as before, and so is the reply the engine holds
passes ==
    /\ [server' EXCEPT !.published = server.published,
                       !.dispatched = server.dispatched,
                       !.dropped = server.dropped] = server
    /\ reply' = reply

\* the slot of one kind of call: a message on its topic resolves the call
\* and clears the slot when the slot is set, and passes when it is not;
\* either way the slot of the other kind stays as it is
slotKept(topic, resolve, other) ==
    delivers(topic) =>
        /\ server[resolve] =>
               /\ ~server'[resolve]
               /\ Len(server'.outcomes) = Len(server.outcomes) + 1
        /\ ~server[resolve] => passes
        /\ server'[other] = server[other]

\* C31: for each kind of call the pending resolver is used at most once
\* per call: the first message on the result topic while the resolver is
\* set resolves the call and clears the slot, a further message before the
\* next call has set a resolver is dropped without effect, and a message
\* on the topic of one kind neither resolves nor clears the slot of the
\* other kind.
C31_ResolverUsedOnce ==
    [][/\ slotKept(sendCommandResultTopic, "_sendCommandResolve",
                   "_driverFunctionResolve")
       /\ slotKept(driverFunctionResultTopic, "_driverFunctionResolve",
                   "_sendCommandResolve")
       /\ Len(server'.outcomes) <= 1]_vars

\* during the call of getNodeInfo the handler was called three times, with
\* the answer and with two further messages: the call resolved once, two
\* messages were dropped
C31_Witness ==
    /\ server.response # noResponse
    /\ server.response.topic = driverFunctionResultTopic
    /\ server.outcomes = <<"result">>
    /\ server.extra = 2
    /\ server.dropped = 2
    /\ server.published = noResponse
    /\ ~server._driverFunctionResolve

(***************************************************************************)
(* Properties of the order of the packets the engine transmits.            *)
(***************************************************************************)
\* the payload of a DATA packet: what lies between its head of four bytes
\* and its CRC of two
payloadOf(p) == [i \in 1..(Len(p) - 6) |-> p[i + 4]]

\* the bytes blob[32k .. min(32k + 32, len))
blockOf(b, k) ==
    [i \in 1..(Min((32 * k) + 32, Len(b)) - (32 * k)) |-> b[(32 * k) + i]]

\* the i-th distinct packet transmitted is START for i = 1 and carries
\* seq i - 2 after that; while i - 2 is a block of the blob it is the DATA
\* packet with the bytes of that block
inOrder(i) ==
    IF i = 1 THEN sent[i] = startPacket
    ELSE /\ Len(sent[i]) >= 4
         /\ At(sent[i], 0) = commandFirmwareTransfer
         /\ seqField(sent[i]) = i - 2
         /\ (i - 2) * 32 < Len(blob) =>
                /\ At(sent[i], 1) = packetData
                /\ Len(sent[i]) >= 6
                /\ payloadOf(sent[i]) = blockOf(blob, i - 2)

PacketsInOrder == \A i \in 1..Len(sent) : inOrder(i)

isDone(p) == Len(p) >= 4 /\ At(p, 1) = packetDone

\* a DONE among the packets transmitted has a seq of at least the number
\* of blocks, comes after the DATA packets of all blocks, and is followed
\* by DONE packets only
DoneComesLast ==
    \A i \in 1..Len(sent) :
        isDone(sent[i]) =>
            /\ seqField(sent[i]) >= blocksOf(blob)
            /\ i > blocksOf(blob) + 1
            /\ \A k \in 0..(blocksOf(blob) - 1) :
                   /\ At(sent[k + 2], 1) = packetData
                   /\ seqField(sent[k + 2]) = k
            /\ \A j \in i..Len(sent) : isDone(sent[j])

C34_SuccessOnlyAfterDone ==
    result = "true" =>
        /\ done
        /\ \E i \in 1..Len(sent) : isDone(sent[i])
        /\ \A k \in 0..(blocksOf(blob) - 1) :
               \E i \in 1..Len(sent) :
                   At(sent[i], 1) = packetData /\ seqField(sent[i]) = k

(***************************************************************************)
(* Properties of the engine and the simulator together.                    *)
(***************************************************************************)
\* C35: in a run of uploadFirmware against the simulator with a blob of
\* knownFirmwareSize bytes, the simulator's buffer holds the bytes of the
\* blob up to the block it expects next and zeros after them, and when
\* the simulator is in the state done the buffer is byte for byte the
\* blob.
C35_ReceivedBlobEqualsBlob ==
    Len(blob) = knownFirmwareSize =>
        /\ \A i \in 1..knownFirmwareSize :
               simBlob[i] = IF i <= 32 * simNextSeq THEN blob[i] ELSE 0
        /\ simState = "done" => simBlob = blob

C35_Witness ==
    /\ simState = "done"
    /\ blob = BlobOf(knownFirmwareSize, Patterns)
    /\ simBlob = blob
    /\ \E i \in 1..knownFirmwareSize : simBlob[i] # 0

\* the states the simulator may be in after a packet, by the state before
after(state) ==
    CASE state = "wait" -> {"wait", "transfer"}
      [] state = "transfer" -> {"transfer", "done", "error"}
      [] state = "done" -> {"done"}
      [] state = "error" -> {"error"}

\* C36: the state of the simulator only moves forward along
\* wait -> transfer -> {done, error}: START is taken only in wait, where it
\* sets next_seq to 0 and is answered with [CMD, DATA_REQUEST, 0, 0]; the
\* simulator never goes back to wait or to transfer; done and error are
\* never left; and next_seq never decreases and never exceeds the number
\* of blocks plus one.
C36_StateMovesForward ==
    [][/\ simState' \in after(simState)
       /\ isPacket(received', packetStart) =>
              IF simState = "wait"
              THEN /\ simState' = "transfer"
                   /\ simNextSeq' = 0
                   /\ reply' = seqReply(packetDataRequest, 0)
              ELSE /\ UNCHANGED <<simState, simNextSeq, simBlob>>
                   /\ reply' = null
       /\ (simState = "wait" /\ simState' = "transfer") =>
              isPacket(received', packetStart)
       /\ simNextSeq' >= simNextSeq
       /\ simNextSeq' <= (knownFirmwareSize \div 32) + 1]_vars

\* next_seq has got to the number of blocks plus one, by a DATA packet
\* without payload for the seq after the last block, and a START has come
\* after the simulator went to error
C36_Witness ==
    /\ simState = "error"
    /\ simNextSeq = (knownFirmwareSize \div 32) + 1
    /\ received = startPacket
    /\ reply = null

\* C37: in a run of uploadFirmware against the simulator the two sides
\* stay in step.  Whenever the engine is about to transmit the DATA or
\* DONE packet of seq k, the next_seq of the simulator is k.  Right after
\* the simulator has taken the DATA packet of seq k, its next_seq is
\* k + 1 and its reply is the DATA_REQUEST of k + 1; and the seq of the
\* DATA_REQUEST the engine accepted last is the next_seq of the simulator.
C37_LockStep ==
    /\ (pc = "send" /\ currentSeq >= 0) =>
           /\ currentPacket \in {DataPacket(blob, currentSeq),
                                 DonePacket(currentSeq)}
           /\ seqField(currentPacket) = currentSeq
           /\ simNextSeq = currentSeq
           /\ accepted[Len(accepted)] = simNextSeq
    /\ (pc = "resume" /\ isPacket(received, packetData)) =>
           /\ received = currentPacket
           /\ simData # <<>> /\ simData[Len(simData)] = currentSeq
           /\ simNextSeq = currentSeq + 1
           /\ reply = seqReply(packetDataRequest, currentSeq + 1)

\* the simulator has taken the DATA packet of the last block and the
\* engine has its reply in hand
C37_Witness ==
    /\ pc = "resume"
    /\ isPacket(received, packetData)
    /\ currentSeq = blocksOf(blob) - 1
    /\ currentSeq > 0
    /\ simNextSeq = currentSeq + 1

(***************************************************************************)
(* Properties of the engine and the simulator over the lossy link.         *)
(***************************************************************************)
\* the simulator has taken a packet the engine has no reply to: it is in
\* transfer and requests the seq after the engine's
ahead ==
    /\ simState = "transfer"
    /\ simNextSeq = currentSeq + 1
    /\ pc = "resume" => reply = null

\* the simulator takes START or a DATA packet
advances ==
    \/ simState = "wait" /\ simState' = "transfer"
    \/ simNextSeq' = simNextSeq + 1

\* C38: once the simulator has taken START or a DATA packet, the same
\* packet sent again gets no reply.  Hence when the reply of the simulator
\* to such a packet is lost, every further call of the engine resends that
\* packet and gets no reply, the simulator stays where it is and never
\* reaches done, and the engine returns false for a timeout once
\* maxTimeouts timeouts have come in a row.
C38_LostReplyIsFatal ==
    [][/\ (advances /\ reply' = null) => ahead'
       /\ ahead =>
              /\ ahead'
              /\ net.dropped >= 1
              /\ UNCHANGED <<simState, simNextSeq, simBlob, currentSeq,
                             currentPacket, done>>
              /\ pc = "send" =>
                     /\ timeouts \in 1..(maxTimeouts - 1)
                     /\ received' \in {received, currentPacket}
                     /\ reply' = null
              /\ pc = "resume" =>
                     /\ timeouts' = timeouts + 1
                     /\ pc' = IF timeouts' < maxTimeouts THEN "send"
                              ELSE "returned"
              /\ pc' = "returned" =>
                     /\ timeouts' = maxTimeouts
                     /\ result' = "false" /\ log' = "timeout"]_vars

\* the reply to a DATA packet was dropped, the only message the link has
\* lost, and the engine has given up
C38_Witness ==
    /\ ahead
    /\ currentSeq >= 0
    /\ net.dropped = 1 /\ net.lost = 0
    /\ pc = "returned" /\ result = "false" /\ log = "timeout"
    /\ repeats = maxTimeouts

(***************************************************************************)
(* Termination of uploadFirmware.                                          *)
(***************************************************************************)
\* a reply of four bytes or more with the command byte and this type
isReply(r, type) ==
    /\ r # null
    /\ Len(r) >= 4
    /\ At(r, 0) = commandFirmwareTransfer
    /\ At(r, 1) = type

\* the transport has returned what ends a run: no reply for the
\* maxTimeouts-th call in a row, or a DONE or CRC_ERROR reply
ends ==
    /\ pc = "resume"
    /\ \/ reply = null /\ repeats = maxTimeouts
       \/ isReply(reply, packetDone)
       \/ isReply(reply, packetCRCError)

\* C39: uploadFirmware returns in the end when it runs against the
\* simulator, whatever the blob; and against a transport that may answer
\* anything it returns in the end whenever the transport comes to return
\* no reply maxTimeouts times in a row or a DONE or CRC_ERROR reply,
\* whatever replies the engine ignores the transport has returned before.
C39_Terminates ==
    /\ command.transport = "FakeTransport" => <>(pc = "returned")
    /\ command.transport = "ZwaveJS2MqttTransport" =>
           (<>ends => <>(pc = "returned"))

\* against the gateway's transport the engine has got through a block,
\* then no reply maxTimeouts times in a row, and has returned
C39_Witness ==
    /\ command.transport = "ZwaveJS2MqttTransport"
    /\ pc = "returned" /\ log = "timeout"
    /\ currentSeq > 0
    /\ repeats = maxTimeouts
    /\ reply = null

\* the 'message' handler is run with the message the gateway published
dispatches == server.published # noResponse /\ server'.published = noResponse

\* C40: no response of the gateway is lost to a race.  Whenever the
\* response to a call of _sendCommand or _driverFunction is dispatched,
\* however the dispatch falls among the steps of the call, the resolver of
\* that call is set, the handler lets no message pass, and the call has
\* yielded its one outcome.
C40_NoResponseLost ==
    [][dispatches =>
           /\ server.published.topic = sendCommandResultTopic =>
                  server._sendCommandResolve
           /\ server.published.topic = driverFunctionResultTopic =>
                  server._driverFunctionResolve
           /\ server'.dropped = server.dropped
           /\ Len(server'.outcomes) = 1]_vars

====
